---- MODULE Spec2Model ----
(***************************************************************************)
(* TON tracker: webhook receiver, processed-event ledger, subscription     *)
(* synchronizer and rate-limited TonAPI client, as state machines.         *)
(*                                                                         *)
(*   SpecSync     webhook.Manager (Init, SyncLoop, sync) against storage   *)
(*                and the upstream registration                            *)
(*   SpecRecv     webhook.Server (handleWebhook, processTransaction) with  *)
(*                storage.MarkEventProcessed on a connection pool          *)
(*   SpecThrottle tonapi.Client (throttle, doRequest) under a clock        *)
(*   SpecCall     one operation of tonapi.Client and what it returns       *)
(*   SpecBackfill seedAllWallets, then webhook deliveries                  *)
(*   SpecStartup  seedAllWallets beside the webhook server, with shutdown  *)
(*   SpecSeed     seedAllWallets over two wallets, scheduled fairly        *)
(*   SpecLive     a webhook delivery beside the bot's wallet handlers      *)
(*   SpecNotify   notifier.Notifier.HandleEvent                            *)
(*   SpecAdd      storage.AddWallet called by two handlers of one user     *)
(*   SpecPremium  notifier.PremiumChecker polling the service wallet        *)
(*   SpecConv     telegram.StateManager under the bot's message handlers    *)
(***************************************************************************)
EXTENDS Integers, Sequences, FiniteSets, TLC

(***************************************************************************)
(* Bounds of the model.                                                    *)
(***************************************************************************)
\* wallets.id is AUTOINCREMENT: ids are handed out up to this one
MaxWalletId == 2
\* connections the database/sql pool of Storage.db holds open
NumConns == 1
\* goroutines calling Client.doRequest
NumCallers == 2
\* the clock stops advancing after this many quanta
MaxClock == 4
\* actions an event carries at most
MaxActions == 2
\* checkPayments calls of the premium checker
MaxPolls == 2

(***************************************************************************)
(* Program constants.                                                      *)
(***************************************************************************)
\* config.Load: MAX_WALLETS_PER_USER default
MaxWalletsPerUser == 3
\* len(AccountID) the debug log lines slice to: payload.AccountID[:10]
AccountLogLen == 10
\* NewClient: minDelay, 250 * time.Millisecond
MinDelay == 250
\* seedAllWallets: tonAPI.GetEvents(ctx, w.AddressRaw, 5)
SeedLimit == 5
\* config.Load: MIN_TRANSFER_TON default
MinTransferTON == 0
\* SyncLoop: time.NewTicker(interval), whose channel buffers one tick
TickerCap == 1

(***************************************************************************)
(* Values.                                                                 *)
(***************************************************************************)
Users == {1, 2}

\* raw addresses ("0:" + hex); both are long enough to be sliced for the log
AddrA == "0:aaaaaaaaaaaa"
AddrB == "0:bbbbbbbbbbbb"
Addrs == {AddrA, AddrB}

\* the configured callback endpoint and another registration's endpoint
EndpointOurs == "https://tracker/webhook"
EndpointOther == "https://other/webhook"

None == "none"

VARIABLES
    \* ---- storage.Storage (sqlite behind database/sql)
    wallets,        \* rows of table wallets: [id, user, addr]
    nextWalletId,   \* the AUTOINCREMENT sequence of wallets.id
    ledger,         \* rows of table processed_events: <<wallet_id, event_id>>
    connChanges,    \* per connection: what SELECT changes() returns on it
    bot,            \* bot handler goroutines inside a storage operation
    \* ---- webhook.Manager and the upstream service
    endpoint,       \* Manager.endpoint (cfg.WebhookEndpoint)
    hooks,          \* upstream registrations: [id, endpoint, accounts]
    webhookID,      \* Manager.webhookID
    subscribed,     \* Manager.subscribed (keys mapped to true)
    mgr,            \* position of main/SyncLoop/sync and sync's locals
    tickPending,    \* values buffered in ticker.C
    cancelled,      \* ctx.Done() is closed
    lastTick,       \* history: the last completed run of sync
    initCalls,      \* history: the upstream calls Manager.Init issued, "err" if it failed
    \* ---- tonapi.Client
    now,            \* the wall clock, in milliseconds
    lastCall,       \* Client.lastCall
    muHolder,       \* the caller holding Client.mu, 0 when free
    call,           \* per calling goroutine: its position in doRequest
    sent,           \* history: start times of the requests httpClient.Do issued
    \* ---- webhook.Server
    req,            \* per delivery: the handler and its processTransaction goroutine
    dispatches,     \* history: times s.handler was started per <<wallet id, event id>>
    markLog,        \* history: MarkEventProcessed calls that returned without error
    \* ---- seedAllWallets
    seed,           \* the seeder goroutine: its position and locals
    \* ---- notifier.Notifier
    note,           \* one HandleEvent call: its arguments and the notifications sent
    \* ---- notifier.PremiumChecker and the premium tables
    prem,           \* the checker goroutine, premium_payments and premium_users
    \* ---- telegram.StateManager and the bot's message handlers
    conv            \* conversation states, their Data maps, the handler goroutines

storageVars == <<wallets, nextWalletId, ledger, connChanges, bot>>
mgrVars == <<endpoint, hooks, webhookID, subscribed, mgr, tickPending, cancelled, lastTick,
            initCalls>>
clientVars == <<now, lastCall, muHolder, call, sent>>
recvVars == <<req, dispatches, markLog>>
seedVars == <<seed>>
notifyVars == <<note>>
premVars == <<prem>>
convVars == <<conv>>

(***************************************************************************)
(* storage.Storage: the statements its methods execute.  Every db.Exec and *)
(* db.QueryRow runs on whichever pooled connection database/sql hands out. *)
(***************************************************************************)
BotTasks == DOMAIN bot

\* the open connections of the pool
Conns == DOMAIN connChanges

BotIdle == [pc |-> "idle", user |-> 0, addr |-> None, wid |-> 0]

\* SELECT COUNT(*) FROM wallets WHERE user_id = ?
CountWallets(ws, u) == Cardinality({w \in ws : w.user = u})

\* the rows a SELECT ... FROM wallets returns, in rowid order
RECURSIVE RowsById(_)
RowsById(ws) ==
    IF ws = {} THEN <<>>
    ELSE LET first == CHOOSE w \in ws : \A v \in ws : w.id <= v.id
         IN  <<first>> \o RowsById(ws \ {first})

\* GetWalletsByRaw: SELECT ... FROM wallets WHERE address_raw = ?
GetWalletsByRaw(ws, a) == RowsById({w \in ws : w.addr = a})

\* GetAllWallets: SELECT ... FROM wallets
GetAllWallets(ws) == RowsById(ws)

\* AddWallet, first statement: the count check against maxWallets
AddWalletCount(t, u, a, max) ==
    /\ bot[t].pc = "idle"
    /\ nextWalletId + Cardinality({b \in BotTasks : bot[b].pc = "aw_insert"}) <= MaxWalletId
    /\ IF CountWallets(wallets, u) >= max
       THEN UNCHANGED bot       \* ErrLimitReached
       ELSE bot' = [bot EXCEPT ![t] = [pc |-> "aw_insert", user |-> u, addr |-> a, wid |-> 0]]
    /\ UNCHANGED <<wallets, nextWalletId, ledger, connChanges>>

\* AddWallet, second statement: INSERT INTO wallets
AddWalletInsert(t) ==
    /\ bot[t].pc = "aw_insert"
    /\ bot' = [bot EXCEPT ![t] = BotIdle]
    /\ \/ \E c \in Conns :
            /\ wallets' = wallets \cup
                   {[id |-> nextWalletId, user |-> bot[t].user, addr |-> bot[t].addr]}
            /\ nextWalletId' = nextWalletId + 1
            /\ connChanges' = [connChanges EXCEPT ![c] = 1]
       \/ UNCHANGED <<wallets, nextWalletId, connChanges>>      \* the insert fails
    /\ UNCHANGED ledger

\* RemoveWallet, first statement: DELETE FROM wallets WHERE user_id = ? AND id = ?
RemoveWalletDelete(t, u, wid) ==
    /\ bot[t].pc = "idle"
    /\ \/ \E c \in Conns :
            LET rows == {w \in wallets : w.user = u /\ w.id = wid}
            IN  /\ wallets' = wallets \ rows
                /\ connChanges' = [connChanges EXCEPT ![c] = Cardinality(rows)]
                /\ bot' = [bot EXCEPT ![t] = [pc |-> "rw_purge", user |-> u, addr |-> None, wid |-> wid]]
       \/ UNCHANGED <<wallets, connChanges, bot>>               \* the delete fails
    /\ UNCHANGED <<nextWalletId, ledger>>

\* RemoveWallet, second statement: DELETE FROM processed_events WHERE wallet_id = ?
RemoveWalletPurge(t) ==
    /\ bot[t].pc = "rw_purge"
    /\ bot' = [bot EXCEPT ![t] = BotIdle]
    /\ \/ \E c \in Conns :
            LET rows == {e \in ledger : e[1] = bot[t].wid}
            IN  /\ ledger' = ledger \ rows
                /\ connChanges' = [connChanges EXCEPT ![c] = Cardinality(rows)]
       \/ UNCHANGED <<ledger, connChanges>>                     \* the delete fails
    /\ UNCHANGED <<wallets, nextWalletId>>

\* the bot handlers that change table wallets (handleWaitAddress, handleDelete),
\* serving the users us
BotStep(us) ==
    \/ \E t \in BotTasks, u \in us, a \in Addrs : AddWalletCount(t, u, a, MaxWalletsPerUser)
    \/ \E t \in BotTasks : AddWalletInsert(t)
    \/ \E t \in BotTasks, u \in us, wid \in 1..MaxWalletId : RemoveWalletDelete(t, u, wid)
    \/ \E t \in BotTasks : RemoveWalletPurge(t)

(***************************************************************************)
(* webhook.Manager                                                         *)
(***************************************************************************)
\* the accounts the upstream service holds under the manager's registration
Upstream ==
    IF \E h \in hooks : h.id = webhookID
    THEN (CHOOSE h \in hooks : h.id = webhookID).accounts
    ELSE {}

\* POST /webhooks/{id}/account-tx/subscribe as the service applies it
UpstreamSubscribe(hs, id, accts) ==
    {IF h.id = id THEN [h EXCEPT !.accounts = @ \cup accts] ELSE h : h \in hs}

\* POST /webhooks/{id}/account-tx/unsubscribe as the service applies it
UpstreamUnsubscribe(hs, id, accts) ==
    {IF h.id = id THEN [h EXCEPT !.accounts = @ \ accts] ELSE h : h \in hs}

\* (mutant) only the first wallet's address is needed
NeededFirst(rows) == IF Len(rows) = 0 THEN {} ELSE {rows[1].addr}

\* sync: needed[w.AddressRaw] = true for every wallet
Needed(rows) == {rows[i].addr : i \in 1..Len(rows)}

\* (mutant) every needed address is subscribed again, cached or not
ToAddAll(need, sub) == need

\* sync: addresses needed and not in the cache
ToAdd(need, sub) == need \ sub

\* (mutant) every cached address is unsubscribed, needed or not
ToRemoveAll(need, sub) == sub

\* sync: addresses in the cache and not needed
ToRemove(need, sub) == sub \ need

\* (mutant) a successful subscribe call leaves the cache as it was
CacheAddNone(sub, accts) == sub

\* sync: "for _, addr := range toAdd { m.subscribed[addr] = true }"
CacheAdd(sub, accts) == sub \cup accts

\* sync: "for _, addr := range toRemove { delete(m.subscribed, addr) }"
CacheDelete(sub, accts) == sub \ accts

\* (mutant) the channel of the ticker holds a second value
TickerRoomTwo(n) == n < TickerCap + 1

\* the runtime's send on ticker.C: there is room for the tick, else it is dropped
TickerRoom(n) == n < TickerCap

\* held: executions of sync holding m.mu; dropped: a tick was dropped while this
\* sync ran; subCalls: SubscribeAccounts calls of this sync; skipped: the last
\* sync returned at its check of m.webhookID
MgrLocals ==
    [pc |-> "waiting", needed |-> {}, toAdd |-> {}, toRemove |-> {}, ok |-> TRUE,
     held |-> 0, dropped |-> FALSE, subCalls |-> 0, skipped |-> FALSE]

\* (mutant) Init finds no registration of its endpoint in the list
MatchingNone(hs, ep) == {}

\* Init: the listed registrations with "wh.Endpoint == m.endpoint"
Matching(hs, ep) == {h \in hs : h.endpoint = ep}

\* Manager.Init; "err" in initCalls: Init returned an error
ManagerInit ==
    IF endpoint = ""
    THEN UNCHANGED <<hooks, webhookID, initCalls>>
    ELSE \/ /\ initCalls' = initCalls \cup {"list", "err"}       \* ListWebhooks fails
            /\ UNCHANGED <<hooks, webhookID>>
         \/ LET match == Matching(hooks, endpoint)
            IN  IF match # {}
                THEN /\ webhookID' = (CHOOSE h \in match : \A g \in match : h.id <= g.id).id
                     /\ initCalls' = initCalls \cup {"list"}
                     /\ UNCHANGED hooks
                ELSE \/ /\ initCalls' = initCalls \cup {"list", "create", "err"}
                        /\ UNCHANGED <<hooks, webhookID>>       \* CreateWebhook fails
                     \/ LET new == Cardinality(hooks) + 1
                        IN  /\ initCalls' = initCalls \cup {"list", "create"}
                            /\ hooks' = hooks \cup
                                   {[id |-> new, endpoint |-> endpoint, accounts |-> {}]}
                            /\ webhookID' = new

\* main: "if cfg.WebhookEndpoint != "" { webhookManager.Init(ctx) }"
MainInitWebhook ==
    /\ mgr.pc = "boot"
    /\ IF endpoint # "" THEN ManagerInit ELSE UNCHANGED <<hooks, webhookID, initCalls>>
    /\ mgr' = [mgr EXCEPT !.pc = "start"]
    /\ UNCHANGED <<endpoint, subscribed, tickPending, cancelled, lastTick>>
    /\ UNCHANGED <<storageVars, clientVars, recvVars, seedVars, notifyVars, premVars, convVars>>

\* (mutant) SyncLoop without its check of the endpoint
SyncLoopStartUnguarded ==
    /\ mgr.pc = "start"
    /\ mgr' = [mgr EXCEPT !.pc = "sleeping"]
    /\ UNCHANGED <<endpoint, hooks, webhookID, subscribed, tickPending, cancelled, lastTick, initCalls>>
    /\ UNCHANGED <<storageVars, clientVars, recvVars, seedVars, notifyVars, premVars, convVars>>

\* SyncLoop up to time.Sleep: returns at once without an endpoint
SyncLoopStart ==
    /\ mgr.pc = "start"
    /\ mgr' = [mgr EXCEPT !.pc = IF endpoint = "" THEN "returned" ELSE "sleeping"]
    /\ UNCHANGED <<endpoint, hooks, webhookID, subscribed, tickPending, cancelled, lastTick, initCalls>>
    /\ UNCHANGED <<storageVars, clientVars, recvVars, seedVars, notifyVars, premVars, convVars>>

\* SyncLoop: the initial sleep is over, the ticker is created
SyncLoopTicker ==
    /\ mgr.pc = "sleeping"
    /\ mgr' = [mgr EXCEPT !.pc = "waiting"]
    /\ tickPending' = 0
    /\ UNCHANGED <<endpoint, hooks, webhookID, subscribed, cancelled, lastTick, initCalls>>
    /\ UNCHANGED <<storageVars, clientVars, recvVars, seedVars, notifyVars, premVars, convVars>>

\* the ticker fires: the tick is buffered in ticker.C when there is room and
\* dropped otherwise
TickerFire ==
    /\ mgr.pc \in {"waiting", "sync_sub", "sync_unsub"}
    /\ IF TickerRoom(tickPending)
       THEN /\ tickPending' = tickPending + 1
            /\ UNCHANGED mgr
       ELSE /\ UNCHANGED tickPending
            /\ mgr' = [mgr EXCEPT !.dropped = (mgr.pc # "waiting")]
    /\ UNCHANGED <<endpoint, hooks, webhookID, subscribed, cancelled, lastTick, initCalls>>
    /\ UNCHANGED <<storageVars, clientVars, recvVars, seedVars, notifyVars, premVars, convVars>>

\* SyncLoop: case <-ctx.Done()
SyncLoopDone ==
    /\ mgr.pc = "waiting"
    /\ cancelled
    /\ mgr' = [mgr EXCEPT !.pc = "returned"]
    /\ UNCHANGED <<endpoint, hooks, webhookID, subscribed, tickPending, cancelled, lastTick, initCalls>>
    /\ UNCHANGED <<storageVars, clientVars, recvVars, seedVars, notifyVars, premVars, convVars>>

\* (mutant) sync goes on without a registration
NoWebhookNever(id) == FALSE

\* sync: "if m.webhookID == 0 { return nil }"
NoWebhook(id) == id = 0

\* SyncLoop: case <-ticker.C, and sync up to the computation of toAdd/toRemove
SyncBegin ==
    /\ mgr.pc = "waiting"
    /\ tickPending > 0
    /\ mgr.held = 0                                             \* m.mu.Lock()
    /\ tickPending' = tickPending - 1
    /\ IF NoWebhook(webhookID)
       THEN mgr' = [mgr EXCEPT !.skipped = TRUE]
       ELSE \/ UNCHANGED mgr                                    \* GetAllWallets fails
            \/ LET need == Needed(GetAllWallets(wallets))
               IN  mgr' = [MgrLocals EXCEPT
                              !.pc = "sync_sub", !.needed = need,
                              !.toAdd = ToAdd(need, subscribed),
                              !.toRemove = ToRemove(need, subscribed),
                              !.held = mgr.held + 1]
    /\ UNCHANGED <<endpoint, hooks, webhookID, subscribed, cancelled, lastTick, initCalls>>
    /\ UNCHANGED <<storageVars, clientVars, recvVars, seedVars, notifyVars, premVars, convVars>>

\* sync: "if len(toAdd) > 0 { SubscribeAccounts ... }".  With ctx done the
\* client sends nothing and the call fails.
SyncSubscribe ==
    /\ mgr.pc = "sync_sub"
    /\ IF mgr.toAdd = {}
       THEN /\ mgr' = [mgr EXCEPT !.pc = "sync_unsub"]
            /\ UNCHANGED <<hooks, subscribed>>
       ELSE \/ /\ ~cancelled
               /\ hooks' = UpstreamSubscribe(hooks, webhookID, mgr.toAdd)
               /\ subscribed' = CacheAdd(subscribed, mgr.toAdd)
               /\ mgr' = [mgr EXCEPT !.pc = "sync_unsub", !.subCalls = @ + 1]
            \/ /\ UNCHANGED <<hooks, subscribed>>               \* the call fails
               /\ mgr' = [mgr EXCEPT !.pc = "sync_unsub", !.ok = FALSE, !.subCalls = @ + 1]
    /\ UNCHANGED <<endpoint, webhookID, tickPending, cancelled, lastTick, initCalls>>
    /\ UNCHANGED <<storageVars, clientVars, recvVars, seedVars, notifyVars, premVars, convVars>>

\* sync: "if len(toRemove) > 0 { UnsubscribeAccounts ... }", then return
SyncUnsubscribe ==
    /\ mgr.pc = "sync_unsub"
    /\ \E ok \in BOOLEAN :
        /\ mgr.toRemove = {} => ok
        /\ (mgr.toRemove # {} /\ cancelled) => ~ok
        /\ IF mgr.toRemove # {} /\ ok
           THEN /\ hooks' = UpstreamUnsubscribe(hooks, webhookID, mgr.toRemove)
                /\ subscribed' = CacheDelete(subscribed, mgr.toRemove)
           ELSE UNCHANGED <<hooks, subscribed>>
        /\ lastTick' = [ran |-> TRUE,
                        needed |-> mgr.needed, toAdd |-> mgr.toAdd,
                        toRemove |-> mgr.toRemove, subOk |-> mgr.ok, unsubOk |-> ok,
                        subCalls |-> mgr.subCalls,
                        unsubCalls |-> IF mgr.toRemove # {} THEN 1 ELSE 0]
    /\ mgr' = MgrLocals
    /\ UNCHANGED <<endpoint, webhookID, tickPending, cancelled, initCalls>>
    /\ UNCHANGED <<storageVars, clientVars, recvVars, seedVars, notifyVars, premVars, convVars>>

\* SIGINT/SIGTERM: cancel()
Cancel ==
    /\ ~cancelled
    /\ cancelled' = TRUE
    /\ UNCHANGED <<endpoint, hooks, webhookID, subscribed, mgr, tickPending, lastTick, initCalls>>
    /\ UNCHANGED <<storageVars, clientVars, recvVars, seedVars, notifyVars, premVars, convVars>>


(***************************************************************************)
(* tonapi.Client: throttle and doRequest.  Time is the variable `now`; it  *)
(* advances in steps of half a minDelay, at any moment, so a goroutine may *)
(* be delayed for any length of time between two of its statements.        *)
(***************************************************************************)
Callers == DOMAIN call

ClockStep == MinDelay \div 2

\* the zero time.Time of a fresh Client: further back than any elapsed interval
ZeroTime == 0 - (MaxClock + 1) * MinDelay

\* a nil []byte and a nil error
NoData == None
NoError == [kind |-> "nil", status |-> 0, body |-> ""]

\* the errors doRequest builds: fmt.Errorf("do request: %w", err),
\* fmt.Errorf("read body: %w", err), fmt.Errorf("API error %d: %s", status, body)
DoError == [kind |-> "do request", status |-> 0, body |-> ""]
ReadError == [kind |-> "read body", status |-> 0, body |-> ""]
APIError(status, body) == [kind |-> "API error", status |-> status, body |-> body]

\* what doRequest has returned: (data, err); NoResult while the call runs
NoResult == [data |-> NoData, err |-> NoError, returned |-> FALSE]
Returned(data, err) == [data |-> data, err |-> err, returned |-> TRUE]

\* the exported methods of Client: the method of the request they make and
\* whether they pass a body
ClientOps ==
    {[name |-> "GetAccountInfo", method |-> "GET", body |-> FALSE],
     [name |-> "GetEvents", method |-> "GET", body |-> FALSE],
     [name |-> "GetEventByHash", method |-> "GET", body |-> FALSE],
     [name |-> "ListWebhooks", method |-> "GET", body |-> FALSE],
     [name |-> "CreateWebhook", method |-> "POST", body |-> TRUE],
     [name |-> "DeleteWebhook", method |-> "DELETE", body |-> FALSE],
     [name |-> "SubscribeAccounts", method |-> "POST", body |-> TRUE],
     [name |-> "UnsubscribeAccounts", method |-> "POST", body |-> TRUE]}

\* any of the operations, for the runs that do not tell them apart
AnyOp == [name |-> "any", method |-> "GET", body |-> FALSE]

\* no response was read
NoResponse == [status |-> 0, body |-> ""]

\* op: the operation the caller runs; resp: the response its last request got
CallIdle ==
    [pc |-> "idle", wake |-> 0, result |-> NoResult, op |-> AnyOp, resp |-> NoResponse]

\* time.Since(t)
Since(t) == now - t

\* (mutant) throttle never sleeps
SleepForNone(elapsed) == 0

\* throttle: how long to sleep given the elapsed time since lastCall
SleepFor(elapsed) == IF elapsed < MinDelay THEN MinDelay - elapsed ELSE 0

\* time passes
ClockTick ==
    /\ now < MaxClock * ClockStep
    /\ now' = now + ClockStep
    /\ UNCHANGED <<lastCall, muHolder, call, sent>>
    /\ UNCHANGED <<storageVars, mgrVars, recvVars, seedVars, notifyVars, premVars, convVars>>

\* doRequest calls throttle: c.mu.Lock(), elapsed := time.Since(c.lastCall),
\* and time.Sleep is entered when elapsed < minDelay
ThrottleEnter(c) ==
    /\ call[c].pc = "idle"
    /\ muHolder = 0
    /\ muHolder' = c
    /\ call' = [call EXCEPT ![c].pc = "in_throttle",
                            ![c].wake = now + SleepFor(Since(lastCall)),
                            ![c].result = NoResult,
                            ![c].resp = NoResponse]
    /\ UNCHANGED <<now, lastCall, sent>>
    /\ UNCHANGED <<storageVars, mgrVars, recvVars, seedVars, notifyVars, premVars, convVars>>

\* throttle: the sleep (if any) is over, c.lastCall = time.Now(), c.mu.Unlock()
ThrottleLeave(c) ==
    /\ call[c].pc = "in_throttle"
    /\ now >= call[c].wake
    /\ lastCall' = now
    /\ muHolder' = 0
    /\ call' = [call EXCEPT ![c].pc = "throttled"]
    /\ UNCHANGED <<now, sent>>
    /\ UNCHANGED <<storageVars, mgrVars, recvVars, seedVars, notifyVars, premVars, convVars>>

\* doRequest after throttle: build the request and hand it to httpClient.Do,
\* which sends nothing when ctx is already done
DoRequestSend(c) ==
    /\ call[c].pc = "throttled"
    /\ IF cancelled
       THEN /\ call' = [call EXCEPT ![c].pc = "idle", ![c].wake = 0,
                                    ![c].result = Returned(NoData, DoError)]
            /\ UNCHANGED sent
       ELSE /\ call' = [call EXCEPT ![c].pc = "in_flight"]
            /\ sent' = Append(sent, now)
    /\ UNCHANGED <<now, lastCall, muHolder>>
    /\ UNCHANGED <<storageVars, mgrVars, recvVars, seedVars, notifyVars, premVars, convVars>>

\* (mutant) status 400 is not in the error range
ResultOfAbove(resp) ==
    IF resp.status > 400
    THEN Returned(NoData, APIError(resp.status, resp.body))
    ELSE Returned(resp.body, NoError)

\* what doRequest returns for a response it has read
ResultOf(resp) ==
    IF resp.status >= 400
    THEN Returned(NoData, APIError(resp.status, resp.body))
    ELSE Returned(resp.body, NoError)

\* doRequest: httpClient.Do returns and the body is read, the call returns.
\* resps: the responses the upstream service may give
DoRequestReturn(c, resps) ==
    /\ call[c].pc = "in_flight"
    /\ \/ \E resp \in resps :
            call' = [call EXCEPT ![c].pc = "idle", ![c].wake = 0,
                                 ![c].resp = resp, ![c].result = ResultOf(resp)]
       \/ \E err \in {DoError, ReadError} :                      \* the transport fails
            call' = [call EXCEPT ![c].pc = "idle", ![c].wake = 0,
                                 ![c].result = Returned(NoData, err)]
    /\ UNCHANGED <<now, lastCall, muHolder, sent>>
    /\ UNCHANGED <<storageVars, mgrVars, recvVars, seedVars, notifyVars, premVars, convVars>>


(***************************************************************************)
(* webhook.Server: handleWebhook and the processTransaction goroutine it   *)
(* starts, with storage.MarkEventProcessed as its two statements.          *)
(***************************************************************************)
Reqs == DOMAIN req

EventIds == {"e1", "e2"}

WalletIds == 1..MaxWalletId

\* the runtime error of s[:n] when len(s) < n
Panic == "panic: slice bounds out of range"

\* s[:n]
Prefix(str, n) == IF Len(str) < n THEN Panic ELSE SubSeq(str, 1, n)

\* account ids a payload carries: none, a short one, a tracked and an untracked address
AccountIds == {"", "0:abc", AddrA, AddrB}

\* the request as handleWebhook sees it.  event: None when the body has no inline
\* event, else the event's event_id ("" when the event carries none)
Payloads ==
    [method : {"POST", "GET"}, decodable : {TRUE}, eventType : {"account_tx"},
     account : {AddrA}, txHash : {"h1"}, event : {"e1"}]
    \cup
    [method : {"POST"}, decodable : {FALSE}, eventType : {""},
     account : {""}, txHash : {""}, event : {None}]
    \cup
    [method : {"POST"}, decodable : {TRUE}, eventType : {"mempool_msg", "new_contract"},
     account : {AddrA}, txHash : {"h1"}, event : {"e1"}]
    \cup
    [method : {"POST"}, decodable : {TRUE}, eventType : {"account_tx", ""},
     account : {"", "0:abc", AddrB}, txHash : {"h1"}, event : {None, "e1"}]
    \cup
    [method : {"POST"}, decodable : {TRUE}, eventType : {"account_tx"},
     account : {AddrA}, txHash : {"", "h1"}, event : {None, "", "e1"}]

NoPayload ==
    [method |-> "", decodable |-> FALSE, eventType |-> "", account |-> "",
     txHash |-> "", event |-> None]

\* hpc: position of handleWebhook; pc: position of processTransaction;
\* failed: wallets whose handler could not send its notification;
\* failedBefore: the pairs whose handler had failed when the delivery arrived
ReqNew ==
    [hpc |-> "new", pc |-> "none", payload |-> NoPayload, status |-> 0,
     matched |-> <<>>, eventId |-> "", i |-> 0, inserted |-> FALSE,
     results |-> <<>>, spawned |-> {}, running |-> {}, lookups |-> 0, fetches |-> 0,
     fetched |-> None, failed |-> {}, failedBefore |-> {}]

\* (mutant) handleWebhook without the event_type filter
WebhookOutcomeNoFilter(p) ==
    IF p.method # "POST" THEN [status |-> 405, hpc |-> "returned", pc |-> "none"]
    ELSE IF ~p.decodable THEN [status |-> 400, hpc |-> "returned", pc |-> "none"]
    ELSE IF p.account = "" THEN [status |-> 200, hpc |-> "returned", pc |-> "none"]
    ELSE IF Prefix(p.account, AccountLogLen) = Panic
         THEN [status |-> 0, hpc |-> "panicked", pc |-> "none"]
    ELSE [status |-> 200, hpc |-> "returned", pc |-> "pt_lookup"]

\* handleWebhook: the status written, how the handler ended and whether
\* processTransaction was started
WebhookOutcome(p) ==
    IF p.method # "POST" THEN [status |-> 405, hpc |-> "returned", pc |-> "none"]
    ELSE IF ~p.decodable THEN [status |-> 400, hpc |-> "returned", pc |-> "none"]
    ELSE IF p.eventType \in {"mempool_msg", "new_contract"}
         THEN [status |-> 200, hpc |-> "returned", pc |-> "none"]
    ELSE IF p.account = "" THEN [status |-> 200, hpc |-> "returned", pc |-> "none"]
    ELSE IF Prefix(p.account, AccountLogLen) = Panic
         THEN [status |-> 0, hpc |-> "panicked", pc |-> "none"]
    ELSE [status |-> 200, hpc |-> "returned", pc |-> "pt_lookup"]

\* the (wallet, event) pairs whose handler has failed so far
FailedPairs == UNION {{<<w, req[r].eventId>> : w \in req[r].failed} : r \in Reqs}

\* a delivery arrives and handleWebhook runs
HandleWebhook(r, p) ==
    /\ req[r].hpc = "new"
    /\ LET out == WebhookOutcome(p)
       IN  req' = [req EXCEPT ![r] = [ReqNew EXCEPT !.payload = p, !.status = out.status,
                                                    !.hpc = out.hpc, !.pc = out.pc,
                                                    !.failedBefore = FailedPairs]]
    /\ UNCHANGED <<dispatches, markLog>>
    /\ UNCHANGED <<storageVars, mgrVars, clientVars, seedVars, notifyVars, premVars, convVars>>

\* (mutant) processTransaction goes on with an empty list of wallets
NoWalletsNever(rows) == FALSE

\* processTransaction: "if len(wallets) == 0 { return }"
NoWallets(rows) == Len(rows) = 0

\* processTransaction: GetWalletsByRaw(payload.AccountID)
PTLookup(r) ==
    /\ req[r].pc = "pt_lookup"
    /\ \/ req' = [req EXCEPT ![r].pc = "pt_done", ![r].lookups = @ + 1]   \* the query fails
       \/ LET rows == GetWalletsByRaw(wallets, req[r].payload.account)
          IN  req' = [req EXCEPT
                  ![r].lookups = @ + 1,
                  ![r].matched = rows,
                  ![r].pc = IF ~NoWallets(rows) THEN "pt_event"
                            ELSE IF Prefix(req[r].payload.account, AccountLogLen) = Panic
                                 THEN "crashed" ELSE "pt_done"]
    /\ UNCHANGED <<dispatches, markLog>>
    /\ UNCHANGED <<storageVars, mgrVars, clientVars, seedVars, notifyVars, premVars, convVars>>

\* (mutant) an event without event_id is processed like any other
EventUsableAny(ev) == TRUE

\* processTransaction: "if event.EventID == "" { return }"
EventUsable(ev) == ev # ""

\* processTransaction: the event of the payload, fetched by tx_hash when absent.
\* fetched: what GetEventByHash returned, "failed" for an error
PTEvent(r) ==
    /\ req[r].pc = "pt_event"
    /\ LET p == req[r].payload
           got(ev) == [req EXCEPT ![r].eventId = ev, ![r].i = 1,
                                  ![r].pc = IF ~EventUsable(ev) THEN "pt_done"
                                            ELSE IF Len(req[r].matched) = 0 THEN "pt_wait"
                                            ELSE "pt_mark_exec"]
       IN  IF p.event # None
           THEN req' = got(p.event)
           ELSE IF p.txHash # ""
           THEN \/ req' = [req EXCEPT ![r].pc = "pt_done", ![r].fetches = @ + 1,
                                      ![r].fetched = "failed"]
                \/ \E ev \in {"", "e1"} :
                      req' = [got(ev) EXCEPT ![r].fetches = @ + 1, ![r].fetched = ev]
           ELSE req' = [req EXCEPT ![r].pc = "pt_done"]
    /\ UNCHANGED <<dispatches, markLog>>
    /\ UNCHANGED <<storageVars, mgrVars, clientVars, seedVars, notifyVars, premVars, convVars>>

\* INSERT OR IGNORE INTO processed_events: the table afterwards
InsertOrIgnore(l, w, e) == l \cup {<<w, e>>}

\* the rows that INSERT OR IGNORE changes
RowsChanged(l, w, e) == IF <<w, e>> \in l THEN 0 ELSE 1

\* (mutant) the loop over the matching wallets stops at the first wallet that is
\* not dispatched
AfterWalletBreak(i, n, res) == IF res = "new" THEN i + 1 ELSE n + 1

\* (mutant) the loop over the matching wallets takes a wallet again when its
\* MarkEventProcessed call failed
AfterWalletRetry(i, n, res) == IF res = "err" THEN i ELSE i + 1

\* the loop over the matching wallets goes on to the next wallet whatever the
\* result for this one ("continue")
AfterWallet(i, n, res) == i + 1

\* processTransaction's loop body is done for wallet i with result res
LoopOn(r, res) ==
    LET n == Len(req[r].matched)
        j == AfterWallet(req[r].i, n, res)
    IN  [req EXCEPT ![r].results = Append(@, res),
                    ![r].i = j,
                    ![r].pc = IF j > n THEN "pt_wait" ELSE "pt_mark_exec"]

\* MarkEventProcessed, first statement: db.Exec(INSERT OR IGNORE ...)
PTMarkExec(r) ==
    /\ req[r].pc = "pt_mark_exec"
    /\ LET w == req[r].matched[req[r].i].id
           e == req[r].eventId
       IN  \/ /\ req' = LoopOn(r, "err")                       \* Exec fails
              /\ UNCHANGED <<ledger, connChanges>>
           \/ \E c \in Conns :
                /\ ledger' = InsertOrIgnore(ledger, w, e)
                /\ connChanges' = [connChanges EXCEPT ![c] = RowsChanged(ledger, w, e)]
                /\ req' = [req EXCEPT ![r].pc = "pt_mark_query",
                                      ![r].inserted = (<<w, e>> \notin ledger)]
    /\ UNCHANGED <<dispatches, markLog>>
    /\ UNCHANGED <<wallets, nextWalletId, bot>>
    /\ UNCHANGED <<mgrVars, clientVars, seedVars, notifyVars, premVars, convVars>>

\* MarkEventProcessed, second statement: db.QueryRow("SELECT changes()"), and
\* the rest of the loop body: the handler goroutine is started when isNew
PTMarkQuery(r) ==
    /\ req[r].pc = "pt_mark_query"
    /\ LET w == req[r].matched[req[r].i].id
           e == req[r].eventId
       IN  \/ /\ req' = [LoopOn(r, "err") EXCEPT ![r].inserted = FALSE]   \* QueryRow fails
              /\ UNCHANGED <<dispatches, markLog>>
           \/ \E c \in Conns :
                LET isNew == connChanges[c] > 0
                IN  /\ markLog' = markLog \cup
                           {[wid |-> w, eid |-> e, inserted |-> req[r].inserted, wasNew |-> isNew]}
                    /\ IF isNew
                       THEN /\ req' = [LoopOn(r, "new") EXCEPT ![r].inserted = FALSE,
                                           ![r].spawned = @ \cup {w},
                                           ![r].running = @ \cup {w}]
                            /\ dispatches' = [dispatches EXCEPT ![<<w, e>>] = @ + 1]
                       ELSE /\ req' = [LoopOn(r, "old") EXCEPT ![r].inserted = FALSE]
                            /\ UNCHANGED dispatches
    /\ UNCHANGED <<storageVars, mgrVars, clientVars, seedVars, notifyVars, premVars, convVars>>

\* a handler goroutine returns: s.handler(ctx, &wallet, event), then wg.Done().
\* The handler returns nothing; a failed SendNotification is only logged.
HandlerReturn(r, w) ==
    /\ w \in req[r].running
    /\ \E sendOk \in BOOLEAN :
          req' = [req EXCEPT ![r].running = @ \ {w},
                             ![r].failed = IF sendOk THEN @ ELSE @ \cup {w}]
    /\ UNCHANGED <<dispatches, markLog>>
    /\ UNCHANGED <<storageVars, mgrVars, clientVars, seedVars, notifyVars, premVars, convVars>>

\* (mutant) wg.Wait() returns while handler goroutines are still running
WaitGroupZeroAlways(running) == TRUE

\* the WaitGroup counter is zero: every wg.Add(1) was answered by a wg.Done()
WaitGroupZero(running) == running = {}

\* processTransaction: wg.Wait() returns
PTWait(r) ==
    /\ req[r].pc = "pt_wait"
    /\ WaitGroupZero(req[r].running)
    /\ req' = [req EXCEPT ![r].pc = "pt_done"]
    /\ UNCHANGED <<dispatches, markLog>>
    /\ UNCHANGED <<storageVars, mgrVars, clientVars, seedVars, notifyVars, premVars, convVars>>

\* webhook.NewServer, with `reqs` deliveries to come
ServerInit(reqs) ==
    /\ req = [r \in reqs |-> ReqNew]
    /\ dispatches = [pr \in WalletIds \X EventIds |-> 0]
    /\ markLog = {}

(***************************************************************************)
(* seedAllWallets: the goroutine main starts after the webhook server.     *)
(***************************************************************************)
\* the events the upstream service lists for an address, most recent first,
\* as they are when the process starts (one of them carries no event_id)
RecentEvents(a) == IF a = AddrA THEN <<"", "e1">> ELSE <<>>

\* the first n elements of a sequence
FirstN(sq, n) == SubSeq(sq, 1, IF Len(sq) < n THEN Len(sq) ELSE n)

\* GET /accounts/{address}/events?limit=n
GetEvents(a, n) == FirstN(RecentEvents(a), n)

\* (mutant) the inner loop marks every event of the response
MarkableAll(evs) == evs

\* the events of a response the inner loop marks: "if ev.EventID != """
Markable(evs) == SelectSeq(evs, LAMBDA e : e # "")

\* pc "off": the goroutine is not started in this run.  skipped: wallets whose
\* GetEvents call failed; fetched: wallets whose call returned; ok: fetched
\* wallets none of whose MarkEventProcessed calls failed
SeedOff ==
    [pc |-> "off", rows |-> <<>>, i |-> 0, events |-> <<>>, inserted |-> FALSE,
     clean |-> TRUE, ok |-> {}, fetches |-> 0, skipped |-> {}, fetched |-> {}]

\* seedAllWallets: store.GetAllWallets() and the two early returns
SeedLoad ==
    /\ seed.pc = "start"
    /\ \/ seed' = [seed EXCEPT !.pc = "done"]                   \* the query fails
       \/ LET rows == GetAllWallets(wallets)
          IN  seed' = [seed EXCEPT !.rows = rows, !.i = 1,
                                   !.pc = IF Len(rows) = 0 THEN "done" ELSE "fetch"]
    /\ UNCHANGED <<storageVars, mgrVars, clientVars, recvVars, notifyVars, premVars, convVars>>

\* the seeder moves on: the next event of this wallet, else the next wallet.
\* sd is the seeder with the current event already dropped from sd.events
SeedAdvance(sd) ==
    IF Len(sd.events) > 0 THEN [sd EXCEPT !.pc = "mark_exec"]
    ELSE LET done == IF sd.clean THEN sd.ok \cup {sd.rows[sd.i].id} ELSE sd.ok
         IN  [sd EXCEPT !.ok = done, !.clean = TRUE, !.i = @ + 1,
                        !.pc = IF sd.i + 1 > Len(sd.rows) THEN "done" ELSE "fetch"]

\* (mutant) a failed GetEvents ends the whole pass
AfterFetchErrorReturn(i, n) == n + 1

\* the outer loop answers a failed GetEvents with "continue": the next wallet
AfterFetchError(i, n) == i + 1

\* the outer loop: tonAPI.GetEvents(ctx, w.AddressRaw, 5); "continue" on error.
\* With ctx done httpClient.Do fails before anything is sent.
SeedFetch ==
    /\ seed.pc = "fetch"
    /\ LET w == seed.rows[seed.i]
           j == AfterFetchError(seed.i, Len(seed.rows))
           failed == [seed EXCEPT !.i = j, !.skipped = @ \cup {w.id},
                          !.pc = IF j > Len(seed.rows) THEN "done" ELSE "fetch"]
       IN  IF cancelled
           THEN seed' = failed
           ELSE \/ seed' = [failed EXCEPT !.fetches = @ + 1]     \* the request fails
                \/ seed' = SeedAdvance([seed EXCEPT
                               !.fetches = @ + 1,
                               !.fetched = @ \cup {w.id},
                               !.events = Markable(GetEvents(w.addr, SeedLimit))])
    /\ UNCHANGED <<storageVars, mgrVars, clientVars, recvVars, notifyVars, premVars, convVars>>

\* the inner loop, MarkEventProcessed's first statement; its error is dropped
\* ("isNew, _ :=") and the loop goes on
SeedMarkExec ==
    /\ seed.pc = "mark_exec"
    /\ LET w == seed.rows[seed.i].id
           e == Head(seed.events)
       IN  \/ /\ seed' = SeedAdvance([seed EXCEPT !.events = Tail(@), !.clean = FALSE])
              /\ UNCHANGED <<ledger, connChanges>>               \* Exec fails
           \/ \E c \in Conns :
                /\ ledger' = InsertOrIgnore(ledger, w, e)
                /\ connChanges' = [connChanges EXCEPT ![c] = RowsChanged(ledger, w, e)]
                /\ seed' = [seed EXCEPT !.pc = "mark_query",
                                        !.inserted = (<<w, e>> \notin ledger)]
    /\ UNCHANGED <<wallets, nextWalletId, bot>>
    /\ UNCHANGED <<mgrVars, clientVars, recvVars, notifyVars, premVars, convVars>>

\* the inner loop, MarkEventProcessed's second statement: isNew only counts
SeedMarkQuery ==
    /\ seed.pc = "mark_query"
    /\ LET w == seed.rows[seed.i].id
           e == Head(seed.events)
           next == [seed EXCEPT !.events = Tail(@), !.inserted = FALSE]
       IN  \/ /\ seed' = SeedAdvance([next EXCEPT !.clean = FALSE])   \* QueryRow fails
              /\ UNCHANGED markLog
           \/ \E c \in Conns :
                /\ markLog' = markLog \cup
                       {[wid |-> w, eid |-> e, inserted |-> seed.inserted,
                         wasNew |-> connChanges[c] > 0]}
                /\ seed' = SeedAdvance(next)
    /\ UNCHANGED <<req, dispatches>>
    /\ UNCHANGED <<storageVars, mgrVars, clientVars, notifyVars, premVars, convVars>>

SeedStep == SeedLoad \/ SeedFetch \/ SeedMarkExec \/ SeedMarkQuery

\* main: "go seedAllWallets(...)" when run, else no seeder in this run
SeederInit(run) ==
    seed = IF run THEN [SeedOff EXCEPT !.pc = "start"] ELSE SeedOff

(***************************************************************************)
(* notifier.Notifier.HandleEvent, the handler the webhook server starts    *)
(* for a (wallet, event) pair.  Amounts are whole TON.                     *)
(***************************************************************************)
\* Wallet.MinAmountTON == nil
NoMinAmount == 0 - 1

\* the actions of an event: dir says where the watched address stands in a
\* TonTransfer; body is FALSE when the typed member of the action is nil
EventActions ==
    [type : {"JettonSwap"}, body : {TRUE}, ton : {1, 5}, dir : {"in"}]
    \cup [type : {"JettonSwap"}, body : {FALSE}, ton : {5}, dir : {"in"}]
    \cup [type : {"TonTransfer"}, body : {TRUE}, ton : {1, 5}, dir : {"in"}]
    \cup [type : {"TonTransfer"}, body : {TRUE}, ton : {5}, dir : {"out", "other"}]
    \cup [type : {"ContractDeploy"}, body : {FALSE}, ton : {5}, dir : {"other"}]

\* sequences over s of length at most n
RECURSIVE SeqsUpTo(_, _)
SeqsUpTo(s, n) ==
    IF n = 0 THEN {<<>>}
    ELSE LET shorter == SeqsUpTo(s, n - 1)
         IN  shorter \cup {Append(sq, x) : sq \in {t \in shorter : Len(t) = n - 1}, x \in s}

\* extractSwaps
ExtractSwaps(actions) ==
    SelectSeq(actions, LAMBDA a : a.type = "JettonSwap" /\ a.body)

\* extractTransfers: transfers to or from the watched address
ExtractTransfers(actions) ==
    SelectSeq(actions, LAMBDA a : a.type = "TonTransfer" /\ a.body /\ a.dir \in {"in", "out"})

\* the swaps HandleEvent notifies: those not below the wallet's minimum
SwapsSent(swaps, min) ==
    SelectSeq(swaps, LAMBDA a : ~(min # NoMinAmount /\ a.ton < min))

\* the transfers HandleEvent notifies, looked at only when there is no swap
TransfersSent(swaps, transfers, min) ==
    IF Len(swaps) # 0 THEN <<>>
    ELSE SelectSeq(transfers,
                   LAMBDA a : ~(min # NoMinAmount /\ a.ton < min) /\ ~(a.ton < MinTransferTON))

\* HandleEvent(ctx, wallet, event): every bot.SendNotification call it makes
HandleEvent ==
    /\ note.pc = "called"
    /\ LET swaps == ExtractSwaps(note.actions)
           transfers == ExtractTransfers(note.actions)
       IN  note' = [note EXCEPT
                       !.pc = "returned",
                       !.sends = Len(SwapsSent(swaps, note.min))
                                 + Len(TransfersSent(swaps, transfers, note.min))]
    /\ UNCHANGED <<storageVars, mgrVars, clientVars, recvVars, seedVars, premVars, convVars>>

NoNote == [pc |-> "none", actions |-> <<>>, min |-> NoMinAmount, sends |-> 0]

\* no handler call is followed in this run
NotifierIdle == note = NoNote

\* the handler is started for a pair the ledger reported new
NotifierCalled ==
    \E ev \in SeqsUpTo(EventActions, MaxActions), min \in {NoMinAmount, 3} :
        note = [pc |-> "called", actions |-> ev, min |-> min, sends |-> 0]

(***************************************************************************)
(* notifier.PremiumChecker: the polling goroutine, with the tables         *)
(* premium_payments (primary key event_id) and premium_users.              *)
(***************************************************************************)
PayEventIds == {"p1", "p2"}

\* the actions of a payment event as processEvent reads them.  pays: a
\* TonTransfer to the service wallet of at least the price; user: the id found
\* in the comment or by the unique amount, 0 when there is none
PayActions(e) ==
    IF e = "p1"
    THEN <<[pays |-> TRUE, user |-> 1], [pays |-> TRUE, user |-> 2]>>
    ELSE <<[pays |-> FALSE, user |-> 2], [pays |-> TRUE, user |-> 0],
           [pays |-> TRUE, user |-> 2]>>

\* GET /accounts/{service wallet}/events?limit=20, most recent first
PayFeeds == {<<>>, <<"p1">>, <<"p2", "p1">>}

\* polls: checkPayments calls so far; feed, i, j: the events of the current
\* poll and the event and action processEvent is at; failed: a storage call of
\* the current poll returned an error; seen: processEvent calls per event id;
\* activations, notified: successful ActivatePremium calls and SendNotification
\* calls per event id
PremiumIdle ==
    [pc |-> "waiting", polls |-> 0, feed |-> <<>>, i |-> 0, j |-> 0, failed |-> FALSE,
     payments |-> {}, users |-> {},
     seen |-> [e \in PayEventIds |-> 0],
     activations |-> [e \in PayEventIds |-> 0],
     notified |-> [e \in PayEventIds |-> 0]]

\* Start: "if pc.serviceWalletRaw == "" { return }"
PremiumOff == prem = [PremiumIdle EXCEPT !.pc = "off"]

\* Start with a service wallet configured, at its ticker
PremiumStarted == prem = PremiumIdle

\* the ticker fires: checkPayments calls GetEvents and starts on the first event
CheckPayments ==
    /\ prem.pc = "waiting"
    /\ prem.polls < MaxPolls
    /\ \/ prem' = [prem EXCEPT !.polls = @ + 1, !.feed = <<>>, !.failed = TRUE]
       \/ \E f \in PayFeeds :
             prem' = [prem EXCEPT !.polls = @ + 1, !.feed = f, !.failed = FALSE,
                                  !.i = 1, !.j = 1,
                                  !.pc = IF Len(f) = 0 THEN "waiting" ELSE "event",
                                  !.seen = IF Len(f) = 0 THEN @
                                           ELSE [@ EXCEPT ![f[1]] = @ + 1]]
    /\ UNCHANGED <<storageVars, mgrVars, clientVars, recvVars, seedVars, notifyVars, convVars>>

\* (mutant) MarkPremiumPayment reports every payment as new
PaymentIsNewAlways(pays, e) == TRUE

\* MarkPremiumPayment: RowsAffected() > 0 of INSERT OR IGNORE on the key event_id
PaymentIsNew(pays, e) == \A p \in pays : p.event # e

\* MarkPremiumPayment: the table after INSERT OR IGNORE
PaymentInsert(pays, e, u) ==
    IF \E p \in pays : p.event = e THEN pays ELSE pays \cup {[event |-> e, user |-> u]}

\* the loops of checkPayments and processEvent move on by one action
PremiumAdvance(p) ==
    IF p.j < Len(PayActions(p.feed[p.i])) THEN [p EXCEPT !.j = @ + 1]
    ELSE IF p.i < Len(p.feed)
         THEN [p EXCEPT !.i = @ + 1, !.j = 1, !.seen[p.feed[p.i + 1]] = @ + 1]
    ELSE [p EXCEPT !.pc = "waiting"]

\* processEvent: the body of the loop for one action
ProcessEventAction ==
    /\ prem.pc = "event"
    /\ LET e == prem.feed[prem.i]
           a == PayActions(e)[prem.j]
       IN  IF ~a.pays \/ a.user = 0
           THEN prem' = PremiumAdvance(prem)
           ELSE \/ prem' = PremiumAdvance([prem EXCEPT !.failed = TRUE])   \* the insert fails
                \/ LET marked == [prem EXCEPT !.payments = PaymentInsert(@, e, a.user)]
                   IN  IF ~PaymentIsNew(prem.payments, e)
                       THEN prem' = PremiumAdvance(marked)
                       ELSE \/ prem' = PremiumAdvance([marked EXCEPT !.failed = TRUE])
                            \/ prem' = PremiumAdvance(
                                   [marked EXCEPT !.users = @ \cup {a.user},
                                                  !.activations[e] = @ + 1,
                                                  !.notified[e] = @ + 1])
    /\ UNCHANGED <<storageVars, mgrVars, clientVars, recvVars, seedVars, notifyVars, convVars>>

(***************************************************************************)
(* telegram.StateManager and the handlers of the add-wallet and            *)
(* minimum-amount conversations.                                           *)
(***************************************************************************)
\* no entry for the user in StateManager.states
NoState == [state |-> "none", data |-> 0]

\* make(map[string]interface{})
EmptyMap == [hasName |-> FALSE, name |-> <<>>, hasWallet |-> FALSE, wallet |-> 0]

\* a handler goroutine between two updates
HandlerIdle == [pc |-> "idle", user |-> 0, st |-> NoState, text |-> <<>>, kind |-> ""]

\* NewStateManager for the users `us`, served by the handler goroutines `hs`.
\* states: StateManager.states; maps: the Data maps on the heap, by identity;
\* h: the message handlers; fatal: the runtime has ended the process
ConvInit(us, hs) ==
    conv = [states |-> [u \in us |-> NoState],
            maps |-> [m \in 1..(Cardinality(us) + Cardinality(hs) + 1) |-> EmptyMap],
            h |-> [t \in hs |-> HandlerIdle],
            fatal |-> FALSE]

\* the text of a message, trimmed, as a sequence of characters, and what
\* extractAddress and strconv.ParseFloat make of it
Texts ==
    {[chars |-> <<"a">>, kind |-> "word"], [chars |-> <<"ya">>, kind |-> "word"],
     [chars |-> <<"E", "Q">>, kind |-> "address"],
     [chars |-> <<"7">>, kind |-> "number"]}

\* bytes of a character in UTF-8; "ya" names the Cyrillic letter U+044F
Utf8Width(c) == IF c = "ya" THEN 2 ELSE 1

\* len(s) of a Go string: its length in bytes
RECURSIVE ByteLen(_)
ByteLen(sq) == IF sq = <<>> THEN 0 ELSE Utf8Width(Head(sq)) + ByteLen(Tail(sq))

\* (mutant) handleWaitName accepts every name
NameTooShortNever(name) == FALSE

\* handleWaitName: "if len(name) < 2"
NameTooShort(name) == ByteLen(name) < 2

\* a map no state and no running handler refers to
FreshMap ==
    CHOOSE m \in DOMAIN conv.maps :
        /\ \A u \in DOMAIN conv.states : conv.states[u].data # m
        /\ \A t \in DOMAIN conv.h : conv.h[t].st.data # m
        /\ \A n \in DOMAIN conv.maps : n < m =>
              \/ \E u \in DOMAIN conv.states : conv.states[u].data = n
              \/ \E t \in DOMAIN conv.h : conv.h[t].st.data = n

\* StateManager.Set(userID, state, data) with a newly made map
SetFresh(u, state, data) ==
    [conv EXCEPT !.states[u] = [state |-> state, data |-> FreshMap],
                 !.maps[FreshMap] = data]

\* map m is reachable from a stored state or a running handler
Referenced(c, m) ==
    \/ \E u \in DOMAIN c.states : c.states[u].data = m
    \/ \E t \in DOMAIN c.h : c.h[t].st.data = m

\* the garbage collector: a map nothing refers to is gone
Collect(c) ==
    [c EXCEPT !.maps = [m \in DOMAIN c.maps |->
                           IF Referenced(c, m) THEN c.maps[m] ELSE EmptyMap]]

\* callbackHandler: handleAdd and handleSetMinAmount
CallbackHandler(u) ==
    /\ ~conv.fatal
    /\ \/ conv' = Collect(SetFresh(u, "wait_name", EmptyMap))
       \/ \E wid \in 0..1 :
             conv' = Collect(SetFresh(u, "wait_min_amount",
                              [EmptyMap EXCEPT !.hasWallet = TRUE, !.wallet = wid]))
    /\ UNCHANGED <<storageVars, mgrVars, clientVars, recvVars, seedVars, notifyVars, premVars>>

\* defaultHandler up to its switch: states.Get and the state's kind
DefaultHandler(t, u, x) ==
    /\ ~conv.fatal
    /\ conv.h[t].pc = "idle"
    /\ IF conv.states[u] = NoState
       THEN UNCHANGED conv
       ELSE conv' = Collect([conv EXCEPT !.h[t] = [pc |-> conv.states[u].state, user |-> u,
                                           st |-> conv.states[u],
                                           text |-> x.chars, kind |-> x.kind]])
    /\ UNCHANGED <<storageVars, mgrVars, clientVars, recvVars, seedVars, notifyVars, premVars>>

\* another handler is about to write or read the map this handler writes
MapRace(t) ==
    \E g \in DOMAIN conv.h \ {t} :
        /\ conv.h[g].st.data = conv.h[t].st.data
        /\ \/ conv.h[g].pc = "wait_name" /\ ~NameTooShort(conv.h[g].text)
           \/ conv.h[g].pc = "wait_address" /\ conv.h[g].kind = "address"

\* handleWaitName up to the write of state.Data["name"], which no lock guards:
\* with another access to the map at the same time the runtime may end the
\* process ("concurrent map writes")
HandleWaitName(t) ==
    /\ ~conv.fatal
    /\ conv.h[t].pc = "wait_name"
    /\ IF NameTooShort(conv.h[t].text)
       THEN conv' = Collect([conv EXCEPT !.h[t] = HandlerIdle])
       ELSE \/ conv' = Collect([conv EXCEPT !.h[t].pc = "wn_set",
                                    !.maps[conv.h[t].st.data].hasName = TRUE,
                                    !.maps[conv.h[t].st.data].name = conv.h[t].text])
            \/ MapRace(t) /\ conv' = Collect([conv EXCEPT !.fatal = TRUE])
    /\ UNCHANGED <<storageVars, mgrVars, clientVars, recvVars, seedVars, notifyVars, premVars>>

\* handleWaitName: states.Set(userID, StateWaitAddress, state.Data)
WaitNameSet(t) ==
    /\ ~conv.fatal
    /\ conv.h[t].pc = "wn_set"
    /\ conv' = Collect([conv EXCEPT !.states[conv.h[t].user] =
                                 [state |-> "wait_address", data |-> conv.h[t].st.data],
                            !.h[t] = HandlerIdle])
    /\ UNCHANGED <<storageVars, mgrVars, clientVars, recvVars, seedVars, notifyVars, premVars>>

\* handleWaitAddress up to the return of storage.AddWallet
HandleWaitAddress(t) ==
    /\ ~conv.fatal
    /\ conv.h[t].pc = "wait_address"
    /\ IF conv.h[t].kind # "address"
       THEN conv' = Collect([conv EXCEPT !.h[t] = HandlerIdle])
       ELSE \/ conv' = Collect([conv EXCEPT !.h[t] = HandlerIdle])       \* GetAccountInfo fails
            \/ IF conv.maps[conv.h[t].st.data].hasName
               THEN conv' = Collect([conv EXCEPT !.h[t].pc = "wa_clear"])
               ELSE conv' = Collect([conv EXCEPT !.fatal = TRUE])        \* .(string) panics
    /\ UNCHANGED <<storageVars, mgrVars, clientVars, recvVars, seedVars, notifyVars, premVars>>

\* handleWaitAddress: states.Clear(userID) after AddWallet has returned
WaitAddressClear(t) ==
    /\ ~conv.fatal
    /\ conv.h[t].pc = "wa_clear"
    /\ conv' = Collect([conv EXCEPT !.states[conv.h[t].user] = NoState, !.h[t] = HandlerIdle])
    /\ UNCHANGED <<storageVars, mgrVars, clientVars, recvVars, seedVars, notifyVars, premVars>>

\* handleWaitMinAmount: states.Clear(userID), then SetWalletMinAmount
HandleWaitMinAmount(t) ==
    /\ ~conv.fatal
    /\ conv.h[t].pc = "wait_min_amount"
    /\ IF conv.h[t].kind # "number"
       THEN conv' = Collect([conv EXCEPT !.h[t] = HandlerIdle])
       ELSE IF conv.maps[conv.h[t].st.data].hasWallet
            THEN conv' = Collect([conv EXCEPT !.states[conv.h[t].user] = NoState,
                                      !.h[t] = HandlerIdle])
            ELSE conv' = Collect([conv EXCEPT !.fatal = TRUE])           \* .(int64) panics
    /\ UNCHANGED <<storageVars, mgrVars, clientVars, recvVars, seedVars, notifyVars, premVars>>

vars == <<storageVars, mgrVars, clientVars, recvVars, seedVars, notifyVars, premVars, convVars>>

(***************************************************************************)
(* SpecSync: the manager with the bot changing table wallets under it.     *)
(***************************************************************************)
\* table wallets as an earlier run left it: n rows
SeedWallets(n) ==
    {w \in {[id |-> 1, user |-> 1, addr |-> AddrA], [id |-> 2, user |-> 2, addr |-> AddrA]} :
        w.id <= n}

\* storage.New on a database of n wallets, used by `tasks` bot goroutines over
\* `conns` pooled connections
StorageInit(n, tasks, conns) ==
    /\ wallets = SeedWallets(n)
    /\ nextWalletId = n + 1
    /\ ledger = {}
    /\ connChanges = [c \in 1..conns |-> 0]
    /\ bot = [t \in tasks |-> BotIdle]

\* the registrations the upstream service holds when the process starts
InitialHooks ==
    {{}} \cup {{[id |-> 1, endpoint |-> EndpointOther, accounts |-> {AddrA}]}}
         \cup {{[id |-> 1, endpoint |-> EndpointOurs, accounts |-> s]} : s \in {{}, {AddrB}}}

MgrInit ==
    /\ hooks \in InitialHooks
    /\ webhookID = 0
    /\ subscribed = {}
    /\ mgr = [MgrLocals EXCEPT !.pc = "boot"]
    /\ tickPending = 0
    /\ cancelled = FALSE
    /\ lastTick = [ran |-> FALSE, needed |-> {}, toAdd |-> {},
                   toRemove |-> {}, subOk |-> TRUE, unsubOk |-> TRUE,
                   subCalls |-> 0, unsubCalls |-> 0]
    /\ initCalls = {}

\* tonapi.NewClient, with `callers` goroutines about to use the client
ClientInit(callers) ==
    /\ now = 0
    /\ lastCall = ZeroTime
    /\ muHolder = 0
    /\ call = [c \in callers |-> CallIdle]
    /\ sent = <<>>

InitSync ==
    /\ \E n \in 0..1 : StorageInit(n, {1}, 1)
    /\ endpoint \in {"", EndpointOurs}
    /\ MgrInit
    /\ ClientInit({})
    /\ ServerInit({})
    /\ SeederInit(FALSE)
    /\ NotifierIdle
    /\ PremiumOff
    /\ ConvInit({}, {})

MgrStep ==
    \/ MainInitWebhook
    \/ SyncLoopStart
    \/ SyncLoopTicker
    \/ TickerFire
    \/ SyncLoopDone
    \/ SyncBegin
    \/ SyncSubscribe
    \/ SyncUnsubscribe
    \/ Cancel

NextSync ==
    \/ MgrStep
    \/ mgr.pc # "boot" /\ BotStep({1}) /\ UNCHANGED <<mgrVars, clientVars, recvVars, seedVars, notifyVars, premVars, convVars>>

SpecSync == InitSync /\ [][NextSync]_vars

SymDiff(a, b) == (a \ b) \cup (b \ a)

\* the manager is between two ticks and the last tick's upstream calls all succeeded
TickSucceeded ==
    mgr.pc = "waiting" /\ lastTick.ran /\ lastTick.subOk /\ lastTick.unsubOk

\* C3 (as claimed): after a sync tick whose upstream calls all succeeded, the
\* accounts subscribed upstream under the registration are exactly the raw
\* addresses that tick read from storage, whatever the registration held when
\* Init adopted it.
C3_UpstreamEqualsStorageAfterTick ==
    TickSucceeded => Upstream = lastTick.needed

\* C4: a sync tick subscribes only addresses of the storage set it read and
\* unsubscribes only addresses outside it, so no step of a tick grows the
\* symmetric difference between the upstream set and that storage set.
C4_TickOnlyNarrows ==
    [][mgr.pc \in {"sync_sub", "sync_unsub"} =>
        /\ (Upstream' \ Upstream) \subseteq mgr.needed
        /\ (Upstream \ Upstream') \cap mgr.needed = {}
        /\ SymDiff(Upstream', mgr.needed) \subseteq SymDiff(Upstream, mgr.needed)]_vars

\* C4 witness: a tick has subscribed one address and unsubscribed another
C4_Witness ==
    /\ TickSucceeded
    /\ lastTick.toAdd # {} /\ lastTick.toAdd \subseteq Upstream
    /\ lastTick.toRemove # {} /\ lastTick.toRemove \cap Upstream = {}

\* C15: with an empty callback endpoint the manager stays disabled: it issues
\* no upstream call (list, create, subscribe, unsubscribe), adopts no
\* registration, and SyncLoop returns without waiting for or running a tick.
C15_DisabledWithoutEndpoint ==
    endpoint = "" =>
        /\ initCalls = {}
        /\ webhookID = 0
        /\ mgr.pc \in {"boot", "start", "returned"}
        /\ mgr.subCalls = 0
        /\ tickPending = 0
        /\ ~lastTick.ran

\* C15 witness: SyncLoop has returned without an endpoint although storage
\* holds a wallet
C15_Witness ==
    endpoint = "" /\ mgr.pc = "returned" /\ wallets # {}

\* the step in which sync's subscribe part completes
SubscribeStep == mgr.pc = "sync_sub" /\ mgr'.pc = "sync_unsub" /\ mgr.toAdd # {}

\* the step in which sync's unsubscribe part completes and sync returns
UnsubscribeStep == mgr.pc = "sync_unsub" /\ mgr'.pc = "waiting" /\ mgr.toRemove # {}

\* the step in which a tick reads storage and computes toAdd and toRemove
ComputeStep == mgr.pc = "waiting" /\ mgr'.pc = "sync_sub"

\* C17: a bulk call that fails leaves the cache as it was and a call that
\* succeeds adds (subscribe) or deletes (unsubscribe) every address of the call;
\* when the next tick reads the same storage set, the addresses of a failed call
\* are exactly its toAdd (toRemove) again.
C17_CacheFollowsCallOutcome ==
    [][/\ SubscribeStep =>
            subscribed' = (IF mgr'.ok THEN subscribed \cup mgr.toAdd ELSE subscribed)
       /\ UnsubscribeStep =>
            subscribed' = (IF lastTick'.unsubOk THEN subscribed \ mgr.toRemove ELSE subscribed)
       /\ (ComputeStep /\ lastTick.ran /\ mgr'.needed = lastTick.needed) =>
            /\ ~lastTick.subOk => mgr'.toAdd = lastTick.toAdd
            /\ ~lastTick.unsubOk => mgr'.toRemove = lastTick.toRemove]_vars

\* C17 witness: both bulk calls of the last tick failed and the running tick has
\* computed the same toAdd and toRemove again
C17_Witness ==
    /\ mgr.pc = "sync_sub"
    /\ lastTick.ran /\ ~lastTick.subOk /\ ~lastTick.unsubOk
    /\ mgr.toAdd # {} /\ mgr.toAdd = lastTick.toAdd
    /\ mgr.toRemove # {} /\ mgr.toRemove = lastTick.toRemove

\* C18: the first tick that gets to compute finds the cache empty: its toRemove
\* is empty and its toAdd is every distinct raw address in storage; it issues one
\* bulk subscribe for them (none when storage is empty) and no unsubscribe.
C18_FirstTickSubscribesAll ==
    [][/\ (ComputeStep /\ ~lastTick.ran) =>
            /\ mgr'.toRemove = {}
            /\ mgr'.toAdd = {w.addr : w \in wallets}
       /\ (~lastTick.ran /\ lastTick'.ran) =>
            /\ lastTick'.toAdd = lastTick'.needed
            /\ lastTick'.subCalls = (IF lastTick'.needed = {} THEN 0 ELSE 1)
            /\ lastTick'.unsubCalls = 0]_vars

\* C18 witness: the first tick subscribed both addresses in one call
C18_Witness ==
    /\ mgr.pc = "sync_unsub" /\ ~lastTick.ran
    /\ mgr.needed = Addrs /\ mgr.toAdd = Addrs
    /\ mgr.subCalls = 1 /\ mgr.ok
    /\ Addrs \subseteq Upstream

\* C19: sync never runs twice at once, and ticker.C never holds more than one
\* tick: a tick that fires while one is pending is dropped.
C19_TicksNeitherOverlapNorQueue ==
    /\ mgr.held <= 1
    /\ tickPending <= 1
    /\ mgr.dropped => (tickPending = 1 /\ mgr.held = 1)

\* C19 witness: while a sync runs one tick is pending and a further one was dropped
C19_Witness ==
    mgr.pc = "sync_unsub" /\ mgr.dropped /\ tickPending = 1

\* the last tick's calls all succeeded and the running tick read the same
\* storage set
RepeatedTick ==
    /\ mgr.pc \in {"sync_sub", "sync_unsub"}
    /\ lastTick.ran /\ lastTick.subOk /\ lastTick.unsubOk
    /\ mgr.needed = lastTick.needed

\* C20: a tick that follows a fully successful tick on the same storage set
\* computes empty toAdd and toRemove, issues no call and leaves the cache and the
\* upstream registration as they are; no tick issues more than one subscribe or
\* more than one unsubscribe call.
C20_TickIdempotent ==
    [][/\ RepeatedTick =>
            /\ mgr.toAdd = {} /\ mgr.toRemove = {}
            /\ subscribed' = subscribed
            /\ hooks' = hooks
            /\ mgr'.subCalls = 0
            /\ mgr'.pc = "waiting" => (lastTick'.subCalls = 0 /\ lastTick'.unsubCalls = 0)
       /\ mgr'.subCalls <= 1 /\ lastTick'.subCalls <= 1 /\ lastTick'.unsubCalls <= 1]_vars

\* C20 witness: the last tick subscribed something, and the running tick on the
\* same storage set is about to return without having called anything
C20_Witness ==
    /\ RepeatedTick
    /\ mgr.pc = "sync_unsub"
    /\ lastTick.toAdd # {}
    /\ mgr.subCalls = 0 /\ mgr.toRemove = {}

\* the step of main in which Manager.Init runs with an endpoint configured
InitStep == mgr.pc = "boot" /\ mgr'.pc = "start" /\ endpoint # ""

\* C21: Init with an endpoint adopts the id of a listed registration of that
\* endpoint and creates nothing; only when none is listed does it create one
\* registration and adopt its id; when the list or the create call fails it
\* returns the error, the webhook id stays unset and nothing is registered.
C21_InitAdoptsOrCreates ==
    [][InitStep =>
        LET listed == {h \in hooks : h.endpoint = endpoint}
        IN  /\ "list" \in initCalls'
            /\ "create" \in initCalls' => listed = {}
            /\ "err" \in initCalls' => (webhookID' = 0 /\ hooks' = hooks)
            /\ ("err" \notin initCalls' /\ listed # {}) =>
                   /\ webhookID' \in {h.id : h \in listed}
                   /\ hooks' = hooks
                   /\ "create" \notin initCalls'
            /\ ("err" \notin initCalls' /\ listed = {}) =>
                   /\ "create" \in initCalls'
                   /\ hooks \subseteq hooks'
                   /\ Cardinality(hooks' \ hooks) = 1
                   /\ \A h \in hooks' \ hooks :
                          h.endpoint = endpoint /\ h.id = webhookID' /\ h.id # 0]_vars

\* C21 witness: Init adopted the listed registration of its endpoint, creating
\* nothing although another run could have created one
C21_Witness ==
    /\ mgr.pc = "start" /\ endpoint = EndpointOurs
    /\ initCalls = {"list"}
    /\ webhookID = 1
    /\ \E h \in hooks : h.id = 1 /\ h.endpoint = EndpointOurs
    /\ Cardinality(hooks) = 1

\* Init was run for a configured endpoint and left no webhook id
InitFailed == endpoint # "" /\ webhookID = 0 /\ mgr.pc # "boot"

\* C34: when Init failed or was never run (webhook id still 0) while an
\* endpoint is configured, every sync tick returns without reading storage and
\* without an upstream call, the cache stays empty, and the loop never runs
\* Init again.
C34_NoWebhookTicksDoNothing ==
    [][InitFailed =>
          /\ mgr'.pc \notin {"sync_sub", "sync_unsub"}
          /\ mgr'.held = 0 /\ mgr'.needed = {} /\ mgr'.subCalls = 0
          /\ ~lastTick'.ran
          /\ hooks' = hooks
          /\ subscribed' = {}
          /\ initCalls' = initCalls /\ webhookID' = 0]_vars

C34_Witness ==
    /\ InitFailed /\ "err" \in initCalls
    /\ mgr.pc = "waiting" /\ mgr.skipped /\ tickPending = 0
    /\ wallets # {} /\ subscribed = {}

(***************************************************************************)
(* SpecThrottle: goroutines sharing one Client.                            *)
(***************************************************************************)
InitThrottle ==
    /\ StorageInit(0, {}, 1)
    /\ endpoint = ""
    /\ MgrInit
    /\ hooks = {}
    /\ ClientInit(1..NumCallers)
    /\ ServerInit({})
    /\ SeederInit(FALSE)
    /\ NotifierIdle
    /\ PremiumOff
    /\ ConvInit({}, {})

\* a success and a failure
FewResponses == {[status |-> 200, body |-> "{}"], [status |-> 500, body |-> "{}"]}

NextThrottle ==
    \/ ClockTick
    \/ \E c \in Callers : ThrottleEnter(c)
    \/ \E c \in Callers : ThrottleLeave(c)
    \/ \E c \in Callers : DoRequestSend(c)
    \/ \E c \in Callers : DoRequestReturn(c, FewResponses)
    \/ Cancel

SpecThrottle == InitThrottle /\ [][NextThrottle]_vars

\* C5 (as claimed): the starts of any two consecutive requests issued through
\* the shared client are at least minDelay apart.
C5_RequestStartsSpaced ==
    \A i \in 1..(Len(sent) - 1) : sent[i + 1] - sent[i] >= MinDelay

\* C30 (as claimed): once the cancellation signal has fired no request is sent
\* and no caller is held in the throttle: a caller that enters it is not put to
\* sleep, and the sleep of a caller waiting in it is over.
C30_CancelAbortsPromptly ==
    [][/\ cancelled => sent' = sent
       /\ cancelled' =>
             \A c \in Callers : call'[c].pc = "in_throttle" => now' >= call'[c].wake]_vars

\* caller c leaves throttle in this step
LeavesThrottle(c) == call[c].pc = "in_throttle" /\ call'[c].pc = "throttled"

\* C31: the values assigned to lastCall, one each time a caller leaves throttle,
\* are the time of leaving and at least minDelay after the value before; at
\* most one caller is inside throttle; and no call gets to its request or its
\* return, failed or not, except through throttle and its update of lastCall.
C31_LastCallSpaced ==
    [][/\ \A c \in Callers :
             /\ LeavesThrottle(c) =>
                    (lastCall' = now' /\ lastCall' - lastCall >= MinDelay)
             /\ (call'[c].pc = "throttled" /\ call[c].pc # "throttled") => LeavesThrottle(c)
             /\ (call'[c].pc = "in_flight" /\ call[c].pc # "in_flight") =>
                    call[c].pc = "throttled"
             /\ (call'[c].result.returned /\ ~call[c].result.returned) =>
                    call[c].pc \in {"throttled", "in_flight"}
       /\ lastCall' # lastCall => \E c \in Callers : LeavesThrottle(c)
       /\ Cardinality({c \in Callers : call'[c].pc = "in_throttle"}) <= 1]_vars

\* C31 witness: one caller's request has failed, and another caller has slept
\* in throttle and left it one minDelay after the first
C31_Witness ==
    \E c \in Callers, d \in Callers :
        /\ call[c].pc = "idle" /\ call[c].result.returned
        /\ call[c].result.err # NoError
        /\ call[d].pc = "throttled"
        /\ lastCall = MinDelay
        /\ now = MinDelay

(***************************************************************************)
(* SpecCall: one goroutine calls one operation of the client again and     *)
(* again; the upstream service answers with any status and body.           *)
(***************************************************************************)
\* response statuses on both sides of the error range, and two bodies
Responses == [status : {200, 204, 304, 399, 400, 404, 500}, body : {"", "{}"}]

InitCall ==
    /\ StorageInit(0, {}, 1)
    /\ endpoint = ""
    /\ MgrInit
    /\ hooks = {}
    /\ now = 0 /\ lastCall = ZeroTime /\ muHolder = 0 /\ sent = <<>>
    /\ \E op \in ClientOps : call = [c \in {1} |-> [CallIdle EXCEPT !.op = op]]
    /\ ServerInit({})
    /\ SeederInit(FALSE)
    /\ NotifierIdle
    /\ PremiumOff
    /\ ConvInit({}, {})

NextCall ==
    \/ ClockTick
    \/ \E c \in Callers : ThrottleEnter(c)
    \/ \E c \in Callers : ThrottleLeave(c)
    \/ \E c \in Callers : DoRequestSend(c)
    \/ \E c \in Callers : DoRequestReturn(c, Responses)
    \/ Cancel

SpecCall == InitCall /\ [][NextCall]_vars

\* C29: whichever operation made the request, doRequest returns no data and
\* an error carrying the status code and the body when the status of the
\* response it read is 400 or more, and the body with a nil error for every
\* other status.
C29_ErrorRangeSurfaced ==
    \A c \in Callers :
        (call[c].pc = "idle" /\ call[c].resp # NoResponse) =>
            LET resp == call[c].resp
                res == call[c].result
            IN  /\ res.returned
                /\ resp.status >= 400 =>
                       /\ res.data = NoData
                       /\ res.err.kind = "API error"
                       /\ res.err.status = resp.status
                       /\ res.err.body = resp.body
                /\ resp.status < 400 =>
                       /\ res.data = resp.body
                       /\ res.err = NoError

\* C29 witness: SubscribeAccounts got status 400 and returned the API error
\* with that status and the body
C29_Witness ==
    \E c \in Callers :
        /\ call[c].pc = "idle"
        /\ call[c].op.name = "SubscribeAccounts"
        /\ call[c].resp = [status |-> 400, body |-> "{}"]
        /\ call[c].result = Returned(NoData, APIError(400, "{}"))

(***************************************************************************)
(* SpecRecv: two webhook deliveries, handled concurrently, against a       *)
(* database of two wallets of two users on the same raw address.           *)
(***************************************************************************)
InitRecv ==
    /\ StorageInit(2, {}, NumConns)
    /\ endpoint = ""
    /\ MgrInit
    /\ hooks = {}
    /\ ClientInit({})
    /\ ServerInit({1, 2})
    /\ SeederInit(FALSE)
    /\ NotifierIdle
    /\ PremiumOff
    /\ ConvInit({}, {})

NextRecv ==
    \/ \E r \in Reqs, p \in Payloads : HandleWebhook(r, p)
    \/ \E r \in Reqs : PTLookup(r)
    \/ \E r \in Reqs : PTEvent(r)
    \/ \E r \in Reqs : PTMarkExec(r)
    \/ \E r \in Reqs : PTMarkQuery(r)
    \/ \E r \in Reqs, w \in WalletIds : HandlerReturn(r, w)
    \/ \E r \in Reqs : PTWait(r)

SpecRecv == InitRecv /\ [][NextRecv]_vars

\* C1 (as claimed): the downstream handler is started at most once per
\* (wallet, event id) pair over the whole run.
C1_AtMostOneDispatch ==
    \A pr \in DOMAIN dispatches : dispatches[pr] <= 1

\* C2 (as claimed): a MarkEventProcessed call that returns without error returns
\* wasNew = true exactly when its own write inserted the row.
C2_WasNewIffInserted ==
    \A m \in markLog : m.wasNew = m.inserted

\* a POST whose body decodes
Decoded(p) == p.method = "POST" /\ p.decodable

\* a decoded payload that handleWebhook does not discard
Actionable(p) ==
    Decoded(p) /\ p.eventType \notin {"mempool_msg", "new_contract"} /\ p.account # ""

\* handleWebhook has ended for delivery r
Handled(r) == req[r].hpc # "new"

\* C6 (as claimed): handleWebhook answers 405 to a non-POST request, 400 to a
\* POST whose body does not decode and 200 to every POST whose body decodes.
C6_StatusByRequest ==
    \A r \in Reqs : Handled(r) =>
        req[r].status = (IF req[r].payload.method # "POST" THEN 405
                         ELSE IF ~req[r].payload.decodable THEN 400 ELSE 200)

\* C7 (as claimed): no decodable POST payload with a non-empty account_id, of
\* any length, makes handleWebhook or processTransaction panic.
C7_NoPanic ==
    \A r \in Reqs : (Decoded(req[r].payload) /\ req[r].payload.account # "") =>
        (req[r].hpc # "panicked" /\ req[r].pc # "crashed")

\* C8: a mempool_msg or new_contract payload, and a payload with an empty
\* account_id, causes no storage lookup, no ledger insert, no upstream fetch and
\* no dispatch: processTransaction is never started for it.
C8_FilteredPayloadsUntouched ==
    \A r \in Reqs :
        (Handled(r) /\ Decoded(req[r].payload) /\ ~Actionable(req[r].payload)) =>
            /\ req[r].pc = "none"
            /\ req[r].lookups = 0
            /\ req[r].fetches = 0
            /\ req[r].results = <<>>
            /\ req[r].spawned = {}

\* C8 witness: a mempool_msg payload for a tracked address and a payload without
\* account_id were both handled
C8_Witness ==
    /\ \E r \in Reqs : /\ Handled(r)
                       /\ req[r].payload.eventType = "mempool_msg"
                       /\ req[r].payload.account = AddrA
                       /\ req[r].status = 200
    /\ \E r \in Reqs : /\ Handled(r)
                       /\ Decoded(req[r].payload)
                       /\ req[r].payload.eventType = "account_tx"
                       /\ req[r].payload.account = ""
                       /\ req[r].status = 200

\* C9 (as claimed): every structurally valid, actionable payload is answered 200.
C9_ActionableAnswered200 ==
    \A r \in Reqs : (Handled(r) /\ Actionable(req[r].payload)) => req[r].status = 200

\* processTransaction of delivery r has gone through its loop over the wallets
FannedOut(r) == req[r].pc \in {"pt_wait", "pt_done"} /\ req[r].eventId # ""

\* C10: when k wallets share the address of the event, processTransaction makes
\* one MarkEventProcessed call per wallet, keyed by that wallet's id, and starts
\* the handler for exactly the wallets whose call reported new, whatever the
\* other wallets' calls returned.
C10_IndependentFanOut ==
    \A r \in Reqs : FannedOut(r) =>
        /\ Len(req[r].results) = Len(req[r].matched)
        /\ \A j \in 1..Len(req[r].results) :
              req[r].results[j] \in {"new", "old"} =>
                  <<req[r].matched[j].id, req[r].eventId>> \in ledger
        /\ req[r].spawned =
              {req[r].matched[j].id : j \in {k \in 1..Len(req[r].results) : req[r].results[k] = "new"}}

\* C10 witness: of two wallets on the event's address, one delivery dispatched
\* only the second (the first was not new) while the other delivery's insert
\* for the first wallet failed and its second call went through
C10_Witness ==
    \E r \in Reqs, q \in Reqs :
        /\ req[r].pc = "pt_done"
        /\ req[r].results = <<"old", "new">>
        /\ req[r].spawned = {2}
        /\ req[q].pc = "pt_done"
        /\ req[q].results[1] = "err"
        /\ Len(req[q].results) = 2

\* C22: a wallet whose MarkEventProcessed call returned an error is not
\* dispatched by this processTransaction, and the loop goes on: the next wallet
\* is taken at once, and every later wallet gets its own call, its ledger entry
\* when the call went through and its handler exactly when the call reported new.
C22_ErrorSkipsOnlyThatWallet ==
    \A r \in Reqs : \A j \in 1..Len(req[r].results) :
        req[r].results[j] = "err" =>
            /\ req[r].matched[j].id \notin req[r].spawned
            /\ req[r].pc \in {"pt_mark_exec", "pt_mark_query"} =>
                   (req[r].i = Len(req[r].results) + 1 /\ req[r].i <= Len(req[r].matched))
            /\ req[r].pc \in {"pt_wait", "pt_done"} =>
                   Len(req[r].results) = Len(req[r].matched)
            /\ \A k \in (j + 1)..Len(req[r].results) :
                   /\ req[r].results[k] = "new" <=> req[r].matched[k].id \in req[r].spawned
                   /\ req[r].results[k] \in {"new", "old"} =>
                          <<req[r].matched[k].id, req[r].eventId>> \in ledger

\* C22 witness: the call for the first wallet failed before its insert, the
\* second wallet was inserted and dispatched
C22_Witness ==
    \E r \in Reqs :
        /\ req[r].pc = "pt_wait"
        /\ req[r].results = <<"err", "new">>
        /\ req[r].spawned = {req[r].matched[2].id}
        /\ <<req[r].matched[1].id, req[r].eventId>> \notin ledger
        /\ <<req[r].matched[2].id, req[r].eventId>> \in ledger
        /\ dispatches[<<req[r].matched[2].id, req[r].eventId>>] = 1
        /\ dispatches[<<req[r].matched[1].id, req[r].eventId>>] = 0

\* processTransaction of delivery r found wallets and is past obtaining the event
PastEvent(r) ==
    Len(req[r].matched) > 0 /\ req[r].pc \in {"pt_mark_exec", "pt_mark_query", "pt_wait", "pt_done"}

\* the payload of delivery r yields no event to process: no inline event and
\* no tx_hash, or the fetch by tx_hash failed, or the event has no event id
NoEvent(r) ==
    LET p == req[r].payload
    IN  \/ p.event = None /\ p.txHash = ""
        \/ p.event = None /\ p.txHash # "" /\ req[r].fetched \in {"failed", ""}
        \/ p.event = ""

\* C23: when the payload yields no event, processTransaction has returned
\* without a MarkEventProcessed call and without starting a handler for any
\* wallet; the ledger holds a row only once some delivery had an event id.
C23_NoEventAborts ==
    /\ \A r \in Reqs : (PastEvent(r) /\ NoEvent(r)) =>
            /\ req[r].pc = "pt_done"
            /\ req[r].results = <<>>
            /\ ~req[r].inserted
            /\ req[r].spawned = {} /\ req[r].running = {}
    /\ ledger # {} => \E r \in Reqs : PastEvent(r) /\ ~NoEvent(r)
    /\ (\E pr \in DOMAIN dispatches : dispatches[pr] > 0) =>
            \E r \in Reqs : PastEvent(r) /\ ~NoEvent(r)

\* C23 witness: one delivery for a tracked address aborted on a failed fetch,
\* the other on a fetched event without event id; nothing was inserted
C23_Witness ==
    /\ \E r \in Reqs : /\ PastEvent(r) /\ req[r].fetched = "failed"
                       /\ Len(req[r].matched) = 2
    /\ \E r \in Reqs : /\ PastEvent(r) /\ req[r].fetched = ""
                       /\ req[r].payload.event = None
    /\ ledger = {}
    /\ \A pr \in DOMAIN dispatches : dispatches[pr] = 0

\* C24 (as claimed): a pair whose handler failed stays in the ledger, and no
\* delivery that arrives after the failure starts the handler for that pair
\* again.
C24_FailedDispatchNotRetried ==
    [][/\ FailedPairs \subseteq ledger
       /\ \A r \in Reqs : \A w \in req'[r].spawned \ req[r].spawned :
              <<w, req[r].eventId>> \notin req[r].failedBefore]_vars

\* the ids of the wallets processTransaction of delivery r found for the address
MatchedIds(r) == {req[r].matched[j].id : j \in 1..Len(req[r].matched)}

\* C25: a processTransaction call has returned only when every handler task it
\* started has returned, and the handler tasks it has running are tasks it
\* started for distinct matching wallets, so never more than the wallets
\* matching the event's address.
C25_WaitsForBoundedHandlers ==
    \A r \in Reqs :
        /\ req[r].pc \in {"none", "pt_lookup", "pt_event", "pt_done", "crashed"} =>
               req[r].running = {}
        /\ req[r].running \subseteq req[r].spawned
        /\ req[r].spawned \subseteq MatchedIds(r)
        /\ Cardinality(req[r].running) <= Len(req[r].matched)
        /\ Cardinality(req[r].spawned) <= Len(req[r].results)

\* C25 witness: processTransaction is held in wg.Wait() by the handlers of both
\* matching wallets while the other delivery's call has returned after its one
\* handler did
C25_Witness ==
    \E r \in Reqs, q \in Reqs :
        /\ req[r].pc = "pt_wait"
        /\ Len(req[r].matched) = 2
        /\ Cardinality(req[r].running) = 2
        /\ req[q].pc = "pt_done"
        /\ Cardinality(req[q].spawned) = 1
        /\ req[q].running = {}

\* C35: when no stored wallet has a raw address equal to the payload's
\* account_id, or the wallet lookup fails, processTransaction performs no
\* upstream fetch, no ledger insert and no dispatch: it has returned.
C35_NoWalletNoWork ==
    \A r \in Reqs :
        (req[r].lookups > 0 /\ req[r].matched = <<>>) =>
            /\ req[r].pc = "pt_done"
            /\ req[r].fetches = 0 /\ req[r].fetched = None
            /\ req[r].results = <<>> /\ ~req[r].inserted
            /\ req[r].spawned = {} /\ req[r].running = {}

C35_Witness ==
    \E r, q \in Reqs :
        /\ req[r].pc = "pt_done" /\ req[r].lookups = 1 /\ req[r].matched = <<>>
        /\ req[r].payload.account = AddrB /\ req[r].payload.event = None
        /\ req[q].pc = "pt_done" /\ req[q].lookups = 1 /\ req[q].matched = <<>>
        /\ req[q].payload.account = AddrA /\ req[q].payload.event = None

(***************************************************************************)
(* SpecBackfill: the seeder runs to its end over a database of one wallet  *)
(* on AddrA, then two webhook deliveries for AddrA are handled             *)
(* concurrently.                                                           *)
(***************************************************************************)
\* deliveries for the tracked address: the event inline, or only its tx_hash
SeedPayloads ==
    [method : {"POST"}, decodable : {TRUE}, eventType : {"account_tx"},
     account : {AddrA}, txHash : {"h1"}, event : {None, "e1", "e2"}]

\* the steps of the webhook server for deliveries with payloads of ps
RecvStep(ps) ==
    \/ \E r \in Reqs, p \in ps : HandleWebhook(r, p)
    \/ \E r \in Reqs : PTLookup(r)
    \/ \E r \in Reqs : PTEvent(r)
    \/ \E r \in Reqs : PTMarkExec(r)
    \/ \E r \in Reqs : PTMarkQuery(r)
    \/ \E r \in Reqs, w \in WalletIds : HandlerReturn(r, w)
    \/ \E r \in Reqs : PTWait(r)

InitBackfill ==
    /\ StorageInit(1, {}, NumConns)
    /\ endpoint = ""
    /\ MgrInit
    /\ hooks = {}
    /\ ClientInit({})
    /\ ServerInit({1, 2})
    /\ SeederInit(TRUE)
    /\ NotifierIdle
    /\ PremiumOff
    /\ ConvInit({}, {})

NextBackfill ==
    \/ SeedStep
    \/ seed.pc = "done" /\ RecvStep(SeedPayloads)

SpecBackfill == InitBackfill /\ [][NextBackfill]_vars

\* seedAllWallets has returned and wallet w was seeded without any error
SeededClean(w) == seed.pc = "done" /\ w \in seed.ok

\* C11 (as claimed): once the seeder has completed without error for wallet 1,
\* whose address listed event e1 at startup, deliveries carrying e1 dispatch
\* nothing for the wallet, and deliveries carrying the unseen event e2 dispatch
\* it exactly once.
C11_BackfillSuppression ==
    SeededClean(1) =>
        /\ dispatches[<<1, "e1">>] = 0
        /\ dispatches[<<1, "e2">>] <= 1
        /\ (\E r \in Reqs : /\ req[r].pc = "pt_done"
                            /\ req[r].eventId = "e2"
                            /\ req[r].results \in {<<"new">>, <<"old">>})
              => dispatches[<<1, "e2">>] = 1

(***************************************************************************)
(* SpecStartup: the seeder runs concurrently with the webhook server, as   *)
(* main starts them, and the process may be told to shut down.             *)
(***************************************************************************)
NextStartup ==
    \/ SeedStep
    \/ RecvStep(SeedPayloads)
    \/ Cancel

SpecStartup == InitBackfill /\ [][NextStartup]_vars

\* C12 (as claimed): an event that the upstream service listed for a tracked
\* address when the process started is never dispatched for a wallet on that
\* address.
C12_HistoricalNeverDispatched ==
    \A w \in wallets : \A k \in 1..Len(RecentEvents(w.addr)) :
        RecentEvents(w.addr)[k] # "" => dispatches[<<w.id, RecentEvents(w.addr)[k]>>] = 0

\* C14 (as claimed): once the shared cancellation signal has fired, neither the
\* seeder nor the receiver's processing of a delivery starts another upstream
\* request (no GetEvents, no GetEventByHash).
C14_NoUpstreamCallAfterCancel ==
    [][cancelled =>
        /\ seed'.fetches = seed.fetches
        /\ \A r \in Reqs : req'[r].fetches = req[r].fetches]_vars

(***************************************************************************)
(* SpecSeed: the seeder over a database of two wallets, with one webhook   *)
(* delivery handled beside it and a shutdown possible at any moment.  The  *)
(* seeder goroutine is scheduled fairly: each of its calls returns (the    *)
(* HTTP client has a timeout) and its next statement runs.                 *)
(***************************************************************************)
InitSeed ==
    /\ StorageInit(2, {}, NumConns)
    /\ endpoint = ""
    /\ MgrInit
    /\ hooks = {}
    /\ ClientInit({})
    /\ ServerInit({1})
    /\ SeederInit(TRUE)
    /\ NotifierIdle
    /\ PremiumOff
    /\ ConvInit({}, {})

NextSeed ==
    \/ SeedStep
    \/ RecvStep(SeedPayloads)
    \/ Cancel

SpecSeed == InitSeed /\ [][NextSeed]_vars /\ WF_vars(SeedStep)

\* the (wallet id, event id) pairs seeding wallet w means inserting
SeedPairs(w) ==
    LET evs == Markable(GetEvents(w.addr, SeedLimit))
    IN  {<<w.id, evs[k]>> : k \in 1..Len(evs)}

\* the seeder has returned after one pass: each wallet of the list was tried
\* once; the wallets whose fetch failed were skipped, and every other wallet,
\* unless a MarkEventProcessed call of its own failed, has its pairs in the ledger
SeedPassDone ==
    /\ seed.pc = "done"
    /\ seed.fetches <= Len(seed.rows)
    /\ \A k \in 1..Len(seed.rows) :
          LET w == seed.rows[k]
          IN  /\ w.id \in seed.skipped \cup seed.fetched
              /\ w.id \notin seed.skipped \cap seed.fetched
              /\ w.id \in seed.ok => SeedPairs(w) \subseteq ledger
              /\ w.id \in seed.ok => w.id \in seed.fetched

\* C27: seedAllWallets terminates after one pass over the wallets, in which a
\* failed fetch skipped only its own wallet: every wallet was tried, and the
\* event ids fetched for the others are in the ledger.
C27_FetchFailureSkipsOneWallet ==
    <>[]SeedPassDone

\* C27 witness: the fetch for the first wallet failed, and the second wallet's
\* event was still inserted
C27_Witness ==
    /\ seed.pc = "done"
    /\ Len(seed.rows) = 2
    /\ seed.skipped = {seed.rows[1].id}
    /\ seed.ok = {seed.rows[2].id}
    /\ ~cancelled
    /\ ledger = SeedPairs(seed.rows[2])
    /\ ledger # {}

\* C28: a step of seedAllWallets starts no handler and sends no notification;
\* the only thing it writes is the ledger, where it adds (never removes) pairs
\* of the current wallet's id with a non-empty event id that GetEvents(address,
\* 5) returned for that wallet's address.
C28_SeederOnlyMarks ==
    [][seed' # seed =>
        /\ dispatches' = dispatches
        /\ req' = req
        /\ note' = note
        /\ wallets' = wallets
        /\ ledger \subseteq ledger'
        /\ \A pr \in ledger' \ ledger :
              LET w == seed.rows[seed.i]
                  evs == GetEvents(w.addr, SeedLimit)
              IN  /\ pr[1] = w.id
                  /\ pr[2] # ""
                  /\ \E k \in 1..Len(evs) : evs[k] = pr[2]]_vars

\* C28 witness: the seeder has marked the listed event for both wallets, was
\* told it is new, and nothing was dispatched; no delivery has arrived
C28_Witness ==
    /\ seed.pc = "done"
    /\ seed.ok = {1, 2}
    /\ ledger = {<<1, "e1">>, <<2, "e1">>}
    /\ \E m \in markLog : m.wasNew
    /\ \A pr \in DOMAIN dispatches : dispatches[pr] = 0
    /\ \A r \in Reqs : req[r].hpc = "new"
    /\ note = NoNote

(***************************************************************************)
(* SpecLive: one webhook delivery is processed while the bot's handlers    *)
(* add and remove wallets.                                                 *)
(***************************************************************************)
InitLive ==
    /\ StorageInit(1, {1}, NumConns)
    /\ endpoint = ""
    /\ MgrInit
    /\ hooks = {}
    /\ ClientInit({})
    /\ ServerInit({1})
    /\ SeederInit(FALSE)
    /\ NotifierIdle
    /\ PremiumOff
    /\ ConvInit({}, {})

NextLive ==
    \/ RecvStep(SeedPayloads)
    \/ BotStep(Users) /\ UNCHANGED <<mgrVars, clientVars, recvVars, seedVars, notifyVars, premVars, convVars>>

SpecLive == InitLive /\ [][NextLive]_vars

\* C16 (as claimed): the handler is started for a (wallet, event) pair only in
\* the step in which MarkEventProcessed reported it new to the same routine, and
\* the pair is in the ledger when its dispatch starts.
C16_DispatchedPairInLedger ==
    [][\A pr \in DOMAIN dispatches : dispatches'[pr] > dispatches[pr] =>
          /\ \E r \in Reqs : /\ req[r].pc = "pt_mark_query"
                             /\ req[r].matched[req[r].i].id = pr[1]
                             /\ req[r].eventId = pr[2]
                             /\ req'[r].results = Append(req[r].results, "new")
          /\ pr \in ledger]_vars

\* C26 (as claimed): the processed-event ledger is append-only: no step of the
\* program removes a (wallet id, event id) entry.
C26_LedgerAppendOnly ==
    [][ledger \subseteq ledger']_vars

\* the RemoveWallet call of bot task b is for a wallet that is stored for
\* another user than the caller
NotOwner(b) == \E w \in wallets : w.id = b.wid /\ w.user # b.user

\* C32 (as claimed): RemoveWallet called by a user who does not own the
\* wallet changes nothing: neither statement of it removes the wallet row or a
\* ledger entry.
C32_ForeignRemoveChangesNothing ==
    [][\A t \in BotTasks :
          /\ (bot[t].pc = "idle" /\ bot'[t].pc = "rw_purge" /\ NotOwner(bot'[t])) =>
                 (wallets' = wallets /\ ledger' = ledger)
          /\ (bot[t].pc = "rw_purge" /\ bot'[t].pc = "idle" /\ NotOwner(bot[t])) =>
                 (wallets' = wallets /\ ledger' = ledger)]_vars

(***************************************************************************)
(* SpecAdd: two bot handler goroutines serve one user, who adds and        *)
(* removes wallets under a configured limit of one wallet per user.        *)
(***************************************************************************)
\* getMaxWallets with MAX_WALLETS_PER_USER=1
LowLimit == 1

InitAdd ==
    /\ StorageInit(0, {1, 2}, NumConns)
    /\ endpoint = ""
    /\ MgrInit
    /\ hooks = {}
    /\ ClientInit({})
    /\ ServerInit({})
    /\ SeederInit(FALSE)
    /\ NotifierIdle
    /\ PremiumOff
    /\ ConvInit({}, {})

NextAdd ==
    /\ \/ \E t \in BotTasks, a \in Addrs : AddWalletCount(t, 1, a, LowLimit)
       \/ \E t \in BotTasks : AddWalletInsert(t)
       \/ \E t \in BotTasks, wid \in 1..MaxWalletId : RemoveWalletDelete(t, 1, wid)
       \/ \E t \in BotTasks : RemoveWalletPurge(t)
    /\ UNCHANGED <<mgrVars, clientVars, recvVars, seedVars, notifyVars, premVars, convVars>>

SpecAdd == InitAdd /\ [][NextAdd]_vars

\* C33 (as claimed): whatever the interleaving of the AddWallet calls of one
\* user, the wallets stored for the user never exceed maxWallets (a call that
\* finds the count at maxWallets returns ErrLimitReached and inserts nothing).
C33_LimitNeverExceeded ==
    \A u \in Users : CountWallets(wallets, u) <= LowLimit

(***************************************************************************)
(* SpecPremium: the premium checker polls the service wallet's events.     *)
(***************************************************************************)
InitPremium ==
    /\ StorageInit(0, {}, NumConns)
    /\ endpoint = ""
    /\ MgrInit
    /\ hooks = {}
    /\ ClientInit({})
    /\ ServerInit({})
    /\ SeederInit(FALSE)
    /\ NotifierIdle
    /\ PremiumStarted
    /\ ConvInit({}, {})

NextPremium == CheckPayments \/ ProcessEventAction

SpecPremium == InitPremium /\ [][NextPremium]_vars

\* C36: across any number of polls, and any number of qualifying transfer
\* actions inside one event, that see the same payment event id, premium is
\* activated and the activation notification is sent at most once for that id.
C36_OneActivationPerEvent ==
    \A e \in PayEventIds : prem.activations[e] <= 1 /\ prem.notified[e] <= 1

C36_Witness ==
    /\ prem.pc = "waiting" /\ prem.seen["p1"] = MaxPolls
    /\ prem.activations["p1"] = 1 /\ prem.notified["p1"] = 1
    /\ prem.payments = {[event |-> "p1", user |-> 1]}

\* the last poll processed event e to its end and no storage call of it failed
PolledClean(e) ==
    /\ prem.pc = "waiting" /\ ~prem.failed
    /\ \E k \in 1..Len(prem.feed) : prem.feed[k] = e

\* C37 (as claimed): a payment event recorded in premium_payments for a user
\* leads to that user being premium; when ActivatePremium failed after
\* MarkPremiumPayment reported new, a later poll of the same event activates
\* the user.
C37_RecordedPaymentActivates ==
    \A p \in prem.payments : PolledClean(p.event) => p.user \in prem.users

(***************************************************************************)
(* SpecConv: one user's callbacks and messages, the messages handled by    *)
(* two goroutines at once.                                                 *)
(***************************************************************************)
InitConv ==
    /\ StorageInit(0, {}, NumConns)
    /\ endpoint = ""
    /\ MgrInit
    /\ hooks = {}
    /\ ClientInit({})
    /\ ServerInit({})
    /\ SeederInit(FALSE)
    /\ NotifierIdle
    /\ PremiumOff
    /\ ConvInit({1}, {1, 2})

NextConv ==
    \/ \E u \in DOMAIN conv.states : CallbackHandler(u)
    \/ \E t \in DOMAIN conv.h, u \in DOMAIN conv.states, x \in Texts : DefaultHandler(t, u, x)
    \/ \E t \in DOMAIN conv.h : HandleWaitName(t)
    \/ \E t \in DOMAIN conv.h : WaitNameSet(t)
    \/ \E t \in DOMAIN conv.h : HandleWaitAddress(t)
    \/ \E t \in DOMAIN conv.h : WaitAddressClear(t)
    \/ \E t \in DOMAIN conv.h : HandleWaitMinAmount(t)

SpecConv == InitConv /\ [][NextConv]_vars

\* the Data of a stored state carries what its wait state needs
DataFits(c, st) ==
    /\ st.state = "wait_address" =>
          c.maps[st.data].hasName /\ ByteLen(c.maps[st.data].name) >= 2
    /\ st.state = "wait_min_amount" => c.maps[st.data].hasWallet

\* the conversation state of user u with the content of its Data
StateOf(c, u) ==
    [state |-> c.states[u].state,
     data |-> IF c.states[u] = NoState THEN EmptyMap ELSE c.maps[c.states[u].data]]

\* handler t was given input its wait state does not accept
InvalidInput(t) ==
    \/ conv.h[t].pc = "wait_name" /\ ByteLen(conv.h[t].text) < 2
    \/ conv.h[t].pc = "wait_address" /\ conv.h[t].kind # "address"
    \/ conv.h[t].pc = "wait_min_amount" /\ conv.h[t].kind # "number"

\* handler t ends after it has attempted the wallet insert or the update
Attempted(t) ==
    /\ conv'.h[t].pc = "idle" /\ ~conv'.fatal
    /\ \/ conv.h[t].pc = "wa_clear"
       \/ conv.h[t].pc = "wait_min_amount" /\ conv.h[t].kind = "number"

\* C38: in every reachable conversation state a user in wait_address has
\* Data["name"] set to a name of length >= 2 (len, in bytes) and a user in
\* wait_min_amount has Data["wallet_id"] set, under any interleaving of the
\* user's messages and callbacks; invalid input in a wait state leaves the
\* state unchanged; the state is cleared when the wallet insert or the
\* min-amount update is attempted.
C38_ConversationStateSound ==
    [][/\ \A u \in DOMAIN conv.states : DataFits(conv', conv'.states[u])
       /\ \A t \in DOMAIN conv.h :
            /\ (InvalidInput(t) /\ conv'.h[t] # conv.h[t]) =>
                  (\A u \in DOMAIN conv.states : StateOf(conv', u) = StateOf(conv, u))
            /\ Attempted(t) => conv'.states[conv.h[t].user] = NoState]_vars

C38_Witness ==
    /\ conv.states[1].state = "wait_address"
    /\ conv.maps[conv.states[1].data].name = <<"ya">>
    /\ conv.h[1].pc = "wa_clear" /\ conv.h[1].st.data # conv.states[1].data
    /\ ~conv.fatal

(***************************************************************************)
(* SpecNotify: one handler call, for any event of up to MaxActions actions *)
(* and a wallet with or without a minimum amount.                          *)
(***************************************************************************)
InitNotify ==
    /\ StorageInit(0, {}, 1)
    /\ endpoint = ""
    /\ MgrInit
    /\ hooks = {}
    /\ ClientInit({})
    /\ ServerInit({})
    /\ SeederInit(FALSE)
    /\ NotifierCalled
    /\ PremiumOff
    /\ ConvInit({}, {})

NextNotify == HandleEvent

SpecNotify == InitNotify /\ [][NextNotify]_vars

\* C13 (as claimed): a handler call for a new (wallet, event) pair invokes
\* Bot.SendNotification exactly once, whatever the event's actions and the
\* wallet's minimum amount.
C13_OneNotificationPerDispatch ==
    note.pc = "returned" => note.sends = 1
====
